---- MODULE Spec2Model ----
(***************************************************************************)
(* The 6502 interpreter of boss-rush-nes (src/src/cpu.rs) on the flat      *)
(* 64 KiB bus (src/src/bus.rs): registers, one clock tick per step, the    *)
(* interrupt entry points, the addressing modes and the operations.        *)
(***************************************************************************)
EXTENDS Integers, Sequences, FiniteSets, TLC

(***************************************************************************)
(* Fixed-width arithmetic of the Rust integer types.                       *)
(***************************************************************************)
RECURSIVE BitAnd(_, _)
BitAnd(m, n) ==
    IF m = 0 \/ n = 0 THEN 0
    ELSE (m % 2) * (n % 2) + 2 * BitAnd(m \div 2, n \div 2)

RECURSIVE BitOr(_, _)
BitOr(m, n) ==
    IF m = 0 THEN n
    ELSE IF n = 0 THEN m
    ELSE (IF m % 2 = 1 \/ n % 2 = 1 THEN 1 ELSE 0) + 2 * BitOr(m \div 2, n \div 2)

RECURSIVE BitXor(_, _)
BitXor(m, n) ==
    IF m = 0 THEN n
    ELSE IF n = 0 THEN m
    ELSE ((m + n) % 2) + 2 * BitXor(m \div 2, n \div 2)

\* !v on a u8 and on a u16
Not8(v) == 255 - v
Not16(v) == 65535 - v

\* u8 and u16 wrapping_add / wrapping_sub, u8 saturating_sub, `as u8`
wrapping_add8(v, w) == (v + w) % 256
wrapping_sub8(v, w) == (v - w + 256) % 256
wrapping_add16(v, w) == (v + w) % 65536
wrapping_sub16(v, w) == (v - w + 65536) % 65536
saturating_sub(v, w) == IF v > w THEN v - w ELSE 0
as_u8(v) == v % 256

(***************************************************************************)
(* StatusFlags                                                             *)
(***************************************************************************)
CARRY == 1
ZERO == 2
INTERRUPT_DISABLE == 4
DECIMAL == 8
BREAK == 16
UNUSED == 32
OVERFLOW == 64
NEGATIVE == 128

calc_overflow(va, vb, result) ==
    BitAnd(BitAnd(Not16(BitXor(va, vb)), BitXor(va, result)), 128) # 0

has_flag(vp, flag) == BitAnd(vp, flag) # 0

(***************************************************************************)
(* Bus: a zero-initialised 64 KiB array, held as the function of the       *)
(* cells that were ever stored to; every other cell reads 0.               *)
(***************************************************************************)
ADDR_RESET_VECTOR == 65532

BusDefault == << >>

read(mem, addr) == IF addr \in DOMAIN mem THEN mem[addr] ELSE 0

write(mem, addr, data) ==
    [k \in (DOMAIN mem) \cup {addr} |-> IF k = addr THEN data ELSE mem[k]]

\* u8::from_str_radix(token, 16); a token is the sequence of its characters,
\* -1 stands for Err (a character that is no hex digit, or a value over 255)
HexDigit(ch) ==
    CASE ch = "0" -> 0 [] ch = "1" -> 1 [] ch = "2" -> 2 [] ch = "3" -> 3
      [] ch = "4" -> 4 [] ch = "5" -> 5 [] ch = "6" -> 6 [] ch = "7" -> 7
      [] ch = "8" -> 8 [] ch = "9" -> 9
      [] ch \in {"A", "a"} -> 10 [] ch \in {"B", "b"} -> 11
      [] ch \in {"C", "c"} -> 12 [] ch \in {"D", "d"} -> 13
      [] ch \in {"E", "e"} -> 14 [] ch \in {"F", "f"} -> 15
      [] OTHER -> -1

RECURSIVE radix16(_, _)
radix16(digits, acc) ==
    IF digits = << >> THEN acc
    ELSE LET d == HexDigit(Head(digits))
             v == acc * 16 + d
         IN IF d < 0 \/ v > 255 THEN -1 ELSE radix16(Tail(digits), v)

from_str_radix(token) ==
    LET digits == IF token # << >> /\ Head(token) = "+" THEN Tail(token) ELSE token
    IN IF digits = << >> THEN -1 ELSE radix16(digits, 0)

\* load_program: the whitespace-separated tokens parsed as hex bytes and
\* copied to 0x8000 on, then the reset vector set to 0x8000; nothing is
\* stored when a token does not parse
load_program(mem, program) ==
    LET program_bytes == [i \in 1 .. Len(program) |-> from_str_radix(program[i])]
        n == Len(program_bytes)
        body == [k \in (DOMAIN mem) \cup (32768 .. 32768 + n - 1) |->
                    IF k >= 32768 /\ k < 32768 + n
                    THEN program_bytes[k - 32768 + 1] ELSE mem[k]]
    IN IF \E i \in 1 .. n : program_bytes[i] < 0
       THEN mem
       ELSE write(write(body, ADDR_RESET_VECTOR, 0), ADDR_RESET_VECTOR + 1, 128)

(***************************************************************************)
(* Instruction table: opcode -> operation, addressing mode, base cycles.   *)
(* Undefined opcodes are the placeholder xxx, implicit mode.               *)
(***************************************************************************)
INSTRUCTION_OPERATE ==
    <<
       "brk", "ora", "xxx", "xxx", "xxx", "ora", "asl", "xxx", "php", "ora", "asl", "xxx", "xxx", "ora", "asl", "xxx",
       "bpl", "ora", "xxx", "xxx", "xxx", "ora", "asl", "xxx", "clc", "ora", "xxx", "xxx", "xxx", "ora", "asl", "xxx",
       "jsr", "and", "xxx", "xxx", "bit", "and", "rol", "xxx", "plp", "and", "rol", "xxx", "bit", "and", "rol", "xxx",
       "bmi", "and", "xxx", "xxx", "xxx", "and", "rol", "xxx", "sec", "and", "xxx", "xxx", "xxx", "and", "rol", "xxx",
       "rti", "eor", "xxx", "xxx", "xxx", "eor", "lsr", "xxx", "pha", "eor", "lsr", "xxx", "jmp", "eor", "lsr", "xxx",
       "bvc", "eor", "xxx", "xxx", "xxx", "eor", "lsr", "xxx", "cli", "eor", "xxx", "xxx", "xxx", "eor", "lsr", "xxx",
       "rts", "adc", "xxx", "xxx", "xxx", "adc", "ror", "xxx", "pla", "adc", "ror", "xxx", "jmp", "adc", "ror", "xxx",
       "bvs", "adc", "xxx", "xxx", "xxx", "adc", "ror", "xxx", "sei", "adc", "xxx", "xxx", "xxx", "adc", "ror", "xxx",
       "xxx", "sta", "xxx", "xxx", "sty", "sta", "stx", "xxx", "dey", "xxx", "txa", "xxx", "sty", "sta", "stx", "xxx",
       "bcc", "sta", "xxx", "xxx", "sty", "sta", "stx", "xxx", "tya", "sta", "txs", "xxx", "xxx", "sta", "xxx", "xxx",
       "ldy", "lda", "ldx", "xxx", "ldy", "lda", "ldx", "xxx", "tay", "lda", "tax", "xxx", "ldy", "lda", "ldx", "xxx",
       "bcs", "lda", "xxx", "xxx", "ldy", "lda", "ldx", "xxx", "clv", "lda", "tsx", "xxx", "ldy", "lda", "ldx", "xxx",
       "cpy", "cmp", "xxx", "xxx", "cpy", "cmp", "dec", "xxx", "iny", "cmp", "dex", "xxx", "cpy", "cmp", "dec", "xxx",
       "bne", "cmp", "xxx", "xxx", "xxx", "cmp", "dec", "xxx", "cld", "cmp", "xxx", "xxx", "xxx", "cmp", "dec", "xxx",
       "cpx", "sbc", "xxx", "xxx", "cpx", "sbc", "inc", "xxx", "inx", "sbc", "nop", "xxx", "cpx", "sbc", "inc", "xxx",
       "beq", "sbc", "xxx", "xxx", "xxx", "sbc", "inc", "xxx", "sed", "sbc", "xxx", "xxx", "xxx", "sbc", "inc", "xxx" >>

INSTRUCTION_MODE ==
    <<
       "Imp", "Izx", "Imp", "Imp", "Imp", "Zp0", "Zp0", "Imp", "Imp", "Imm", "Imp", "Imp", "Imp", "Abs", "Abs", "Imp",
       "Rel", "Izy", "Imp", "Imp", "Imp", "Zpx", "Zpx", "Imp", "Imp", "Aby", "Imp", "Imp", "Imp", "Abx", "Abx", "Imp",
       "Abs", "Izx", "Imp", "Imp", "Zp0", "Zp0", "Zp0", "Imp", "Imp", "Imm", "Imp", "Imp", "Abs", "Abs", "Abs", "Imp",
       "Rel", "Izy", "Imp", "Imp", "Imp", "Zpx", "Zpx", "Imp", "Imp", "Aby", "Imp", "Imp", "Imp", "Abx", "Abx", "Imp",
       "Imp", "Izx", "Imp", "Imp", "Imp", "Zp0", "Zp0", "Imp", "Imp", "Imm", "Imp", "Imp", "Abs", "Abs", "Abs", "Imp",
       "Rel", "Izy", "Imp", "Imp", "Imp", "Zpx", "Zpx", "Imp", "Imp", "Aby", "Imp", "Imp", "Imp", "Abx", "Abx", "Imp",
       "Imp", "Izx", "Imp", "Imp", "Imp", "Zp0", "Zp0", "Imp", "Imp", "Imm", "Imp", "Imp", "Ind", "Abs", "Abs", "Imp",
       "Rel", "Izy", "Imp", "Imp", "Imp", "Zpx", "Zpx", "Imp", "Imp", "Aby", "Imp", "Imp", "Imp", "Abx", "Abx", "Imp",
       "Imp", "Izx", "Imp", "Imp", "Zp0", "Zp0", "Zp0", "Imp", "Imp", "Imp", "Imp", "Imp", "Abs", "Abs", "Abs", "Imp",
       "Rel", "Izy", "Imp", "Imp", "Zpx", "Zpx", "Zpy", "Imp", "Imp", "Aby", "Imp", "Imp", "Imp", "Abx", "Imp", "Imp",
       "Imm", "Izx", "Imm", "Imp", "Zp0", "Zp0", "Zp0", "Imp", "Imp", "Imm", "Imp", "Imp", "Abs", "Abs", "Abs", "Imp",
       "Rel", "Izy", "Imp", "Imp", "Zpx", "Zpx", "Zpy", "Imp", "Imp", "Aby", "Imp", "Imp", "Abx", "Abx", "Aby", "Imp",
       "Imm", "Izx", "Imp", "Imp", "Zp0", "Zp0", "Zp0", "Imp", "Imp", "Imm", "Imp", "Imp", "Abs", "Abs", "Abs", "Imp",
       "Rel", "Izy", "Imp", "Imp", "Imp", "Zpx", "Zpx", "Imp", "Imp", "Aby", "Imp", "Imp", "Imp", "Abx", "Abx", "Imp",
       "Imm", "Izx", "Imp", "Imp", "Zp0", "Zp0", "Zp0", "Imp", "Imp", "Imm", "Imp", "Imp", "Abs", "Abs", "Abs", "Imp",
       "Rel", "Izy", "Imp", "Imp", "Imp", "Zpx", "Zpx", "Imp", "Imp", "Aby", "Imp", "Imp", "Imp", "Abx", "Abx", "Imp" >>

INSTRUCTION_CYCLES ==
    <<
       7, 6, 2, 8, 3, 3, 5, 5, 3, 2, 2, 2, 4, 4, 6, 6,
       2, 5, 2, 8, 4, 4, 6, 6, 2, 4, 2, 7, 4, 4, 7, 7,
       6, 6, 2, 8, 3, 3, 5, 5, 4, 2, 2, 2, 4, 4, 6, 6,
       2, 5, 2, 8, 4, 4, 6, 6, 2, 4, 2, 7, 4, 4, 7, 7,
       6, 6, 2, 8, 3, 3, 5, 5, 3, 2, 2, 2, 3, 4, 6, 6,
       2, 5, 2, 8, 4, 4, 6, 6, 2, 4, 2, 7, 4, 4, 7, 7,
       6, 6, 2, 8, 3, 3, 5, 5, 4, 2, 2, 2, 5, 4, 6, 6,
       2, 5, 2, 8, 4, 4, 6, 6, 2, 4, 2, 7, 4, 4, 7, 7,
       2, 6, 2, 6, 3, 3, 3, 3, 2, 2, 2, 2, 4, 4, 4, 4,
       2, 6, 2, 6, 4, 4, 4, 4, 2, 5, 2, 5, 5, 5, 5, 5,
       2, 6, 2, 6, 3, 3, 3, 3, 2, 2, 2, 2, 4, 4, 4, 4,
       2, 5, 2, 5, 4, 4, 4, 4, 2, 4, 2, 4, 4, 4, 4, 4,
       2, 6, 2, 8, 3, 3, 5, 5, 2, 2, 2, 2, 4, 4, 6, 6,
       2, 5, 2, 8, 4, 4, 6, 6, 2, 4, 2, 7, 4, 4, 7, 7,
       2, 6, 2, 8, 3, 3, 5, 5, 2, 2, 2, 2, 4, 4, 6, 6,
       2, 5, 2, 8, 4, 4, 6, 6, 2, 4, 2, 7, 4, 4, 7, 7 >>

get_instruction(op) ==
    [operate |-> INSTRUCTION_OPERATE[op + 1],
     mode    |-> INSTRUCTION_MODE[op + 1],
     cycles  |-> INSTRUCTION_CYCLES[op + 1]]

(***************************************************************************)
(* CPU.  A machine value s carries the CPU fields and the bus array:       *)
(* a, x, y, sp, pc, p, addr_abs, addr_rel, opcode, cycles, ram.            *)
(* Every handler yields the machine after it and the u8 it returns.        *)
(***************************************************************************)
CpuDefault(mem) ==
    [a |-> 0, x |-> 0, y |-> 0, sp |-> 0, pc |-> 0, p |-> 0,
     addr_abs |-> 0, addr_rel |-> 0, opcode |-> 0, cycles |-> 0, ram |-> mem]

Out(s, r) == [cpu |-> s, ret |-> r]

current_instruction(s) == get_instruction(s.opcode)

set_flag(s, flag, value) ==
    LET p1 == IF value THEN BitOr(s.p, flag) ELSE BitAnd(s.p, Not8(flag))
    IN [s EXCEPT !.p = BitOr(p1, UNUSED)]

fetch(s) ==
    IF current_instruction(s).mode = "Imp" THEN s.a ELSE read(s.ram, s.addr_abs)

\* ---- addressing modes ----
imp(s) == Out(s, 0)

imm(s) == Out([s EXCEPT !.addr_abs = s.pc, !.pc = wrapping_add16(s.pc, 1)], 0)

zp0(s) ==
    Out([s EXCEPT !.addr_abs = read(s.ram, s.pc), !.pc = wrapping_add16(s.pc, 1)], 0)

\* zpx adding the index in 16 bits
zpx_carrying(s) ==
    Out([s EXCEPT !.addr_abs = read(s.ram, s.pc) + s.x,
                  !.pc = wrapping_add16(s.pc, 1)], 0)

zpx(s) ==
    Out([s EXCEPT !.addr_abs = wrapping_add8(read(s.ram, s.pc), s.x),
                  !.pc = wrapping_add16(s.pc, 1)], 0)

zpy(s) ==
    Out([s EXCEPT !.addr_abs = wrapping_add8(read(s.ram, s.pc), s.y),
                  !.pc = wrapping_add16(s.pc, 1)], 0)

rel(s) ==
    LET v == read(s.ram, s.pc)
    IN Out([s EXCEPT !.addr_rel = IF BitAnd(v, 128) # 0 THEN BitOr(v, 65280) ELSE v,
                     !.pc = wrapping_add16(s.pc, 1)], 0)

abs(s) ==
    LET lo == read(s.ram, s.pc)
        hi == read(s.ram, wrapping_add16(s.pc, 1))
    IN Out([s EXCEPT !.pc = wrapping_add16(wrapping_add16(s.pc, 1), 1),
                     !.addr_abs = BitOr(hi * 256, lo)], 0)

abx(s) ==
    LET lo == read(s.ram, s.pc)
        hi == read(s.ram, wrapping_add16(s.pc, 1))
        addr == wrapping_add16(BitOr(hi * 256, lo), s.x)
    IN Out([s EXCEPT !.pc = wrapping_add16(wrapping_add16(s.pc, 1), 1),
                     !.addr_abs = addr],
           IF BitAnd(addr, 65280) # hi * 256 THEN 1 ELSE 0)

aby(s) ==
    LET lo == read(s.ram, s.pc)
        hi == read(s.ram, wrapping_add16(s.pc, 1))
        addr == wrapping_add16(BitOr(hi * 256, lo), s.y)
    IN Out([s EXCEPT !.pc = wrapping_add16(wrapping_add16(s.pc, 1), 1),
                     !.addr_abs = addr],
           IF BitAnd(addr, 65280) # hi * 256 THEN 1 ELSE 0)

\* ind reading the high byte from ptr + 1 for every pointer
ind_carrying(s) ==
    LET lo == read(s.ram, s.pc)
        hi == read(s.ram, wrapping_add16(s.pc, 1))
        addr == BitOr(hi * 256, lo)
        target == BitOr(read(s.ram, wrapping_add16(addr, 1)) * 256, read(s.ram, addr))
    IN Out([s EXCEPT !.pc = wrapping_add16(wrapping_add16(s.pc, 1), 1),
                     !.addr_abs = target], 0)

ind(s) ==
    LET lo == read(s.ram, s.pc)
        hi == read(s.ram, wrapping_add16(s.pc, 1))
        addr == BitOr(hi * 256, lo)
        target == IF lo = 255
                  THEN BitOr(read(s.ram, BitAnd(addr, 65280)) * 256, read(s.ram, addr))
                  ELSE BitOr(read(s.ram, wrapping_add16(addr, 1)) * 256, read(s.ram, addr))
    IN Out([s EXCEPT !.pc = wrapping_add16(wrapping_add16(s.pc, 1), 1),
                     !.addr_abs = target], 0)

izx(s) ==
    LET addr == read(s.ram, s.pc)
        lo == read(s.ram, wrapping_add8(addr, s.x))
        hi == read(s.ram, wrapping_add8(wrapping_add8(addr, s.x), 1))
    IN Out([s EXCEPT !.pc = wrapping_add16(s.pc, 1),
                     !.addr_abs = BitOr(hi * 256, lo)], 0)

izy(s) ==
    LET addr == read(s.ram, s.pc)
        lo == read(s.ram, addr)
        hi == read(s.ram, wrapping_add8(addr, 1))
        target == wrapping_add16(BitOr(hi * 256, lo), s.y)
    IN Out([s EXCEPT !.pc = wrapping_add16(s.pc, 1),
                     !.addr_abs = target],
           IF BitAnd(target, 65280) # hi * 256 THEN 1 ELSE 0)

\* ---- operations ----
\* adc that takes V from the carry out of bit 7
adc_unsigned_overflow(s) ==
    LET fetched == fetch(s)
        carry == IF has_flag(s.p, CARRY) THEN 1 ELSE 0
        result == wrapping_add16(wrapping_add16(s.a, fetched), carry)
        s1 == set_flag(s, CARRY, BitAnd(result, 65280) # 0)
        s2 == set_flag(s1, ZERO, BitAnd(result, 255) = 0)
        s3 == set_flag(s2, NEGATIVE, BitAnd(result, 128) # 0)
        s4 == set_flag(s3, OVERFLOW, BitAnd(result, 65280) # 0)
    IN Out([s4 EXCEPT !.a = as_u8(result)], 1)

adc(s) ==
    LET fetched == fetch(s)
        carry == IF has_flag(s.p, CARRY) THEN 1 ELSE 0
        result == wrapping_add16(wrapping_add16(s.a, fetched), carry)
        s1 == set_flag(s, CARRY, BitAnd(result, 65280) # 0)
        s2 == set_flag(s1, ZERO, BitAnd(result, 255) = 0)
        s3 == set_flag(s2, NEGATIVE, BitAnd(result, 128) # 0)
        s4 == set_flag(s3, OVERFLOW, calc_overflow(s.a, fetched, result))
    IN Out([s4 EXCEPT !.a = as_u8(result)], 1)

and(s) ==
    LET fetched == fetch(s)
        s1 == [s EXCEPT !.a = BitAnd(s.a, fetched)]
        s2 == set_flag(s1, ZERO, s1.a = 0)
        s3 == set_flag(s2, NEGATIVE, BitAnd(s1.a, 128) # 0)
    IN Out(s3, 1)

asl(s) ==
    LET result == fetch(s) * 2
        s1 == set_flag(s, CARRY, BitAnd(result, 65280) # 0)
        s2 == set_flag(s1, ZERO, BitAnd(result, 255) = 0)
        s3 == set_flag(s2, NEGATIVE, BitAnd(result, 128) # 0)
    IN Out(IF current_instruction(s).mode = "Imp"
           THEN [s3 EXCEPT !.a = as_u8(result)]
           ELSE [s3 EXCEPT !.ram = write(s.ram, s.addr_abs, as_u8(result))], 0)

\* branch_taken without the page test
branch_taken_one_tick(s) ==
    LET target == wrapping_add16(s.pc, s.addr_rel)
    IN [s EXCEPT !.cycles = s.cycles + 1,
                 !.addr_abs = target,
                 !.pc = target]

branch_taken(s) ==
    LET target == wrapping_add16(s.pc, s.addr_rel)
        crossed == BitAnd(target, 65280) # BitAnd(s.pc, 65280)
    IN [s EXCEPT !.cycles = s.cycles + 1 + (IF crossed THEN 1 ELSE 0),
                 !.addr_abs = target,
                 !.pc = target]

bcc(s) == Out(IF ~has_flag(s.p, CARRY) THEN branch_taken(s) ELSE s, 0)

bcs(s) == Out(IF has_flag(s.p, CARRY) THEN branch_taken(s) ELSE s, 0)

beq(s) == Out(IF has_flag(s.p, ZERO) THEN branch_taken(s) ELSE s, 0)

bit(s) ==
    LET fetched == fetch(s)
        result == BitAnd(s.a, fetched)
        s1 == set_flag(s, ZERO, result = 0)
        s2 == set_flag(s1, OVERFLOW, BitAnd(result, 64) # 0)
        s3 == set_flag(s2, NEGATIVE, BitAnd(result, 128) # 0)
    IN Out(s3, 0)

bmi(s) == Out(IF has_flag(s.p, NEGATIVE) THEN branch_taken(s) ELSE s, 0)

\* bne with its test the wrong way round
bne_inverted(s) == Out(IF has_flag(s.p, ZERO) THEN branch_taken(s) ELSE s, 0)

bne(s) == Out(IF ~has_flag(s.p, ZERO) THEN branch_taken(s) ELSE s, 0)

bpl(s) == Out(IF ~has_flag(s.p, NEGATIVE) THEN branch_taken(s) ELSE s, 0)

brk(s) ==
    LET s1 == set_flag([s EXCEPT !.pc = wrapping_add16(s.pc, 1)], INTERRUPT_DISABLE, TRUE)
        s2 == [s1 EXCEPT !.ram = write(s1.ram, 256 + s1.sp, as_u8(s1.pc \div 256)),
                         !.sp = wrapping_sub8(s1.sp, 1)]
        s3 == [s2 EXCEPT !.ram = write(s2.ram, 256 + s2.sp, as_u8(s2.pc)),
                         !.sp = wrapping_sub8(s2.sp, 1)]
        s4 == set_flag(s3, BREAK, TRUE)
        s5 == [s4 EXCEPT !.ram = write(s4.ram, 256 + s4.sp, s4.p),
                         !.sp = wrapping_sub8(s4.sp, 1)]
        s6 == set_flag(s5, BREAK, FALSE)
        lo == read(s6.ram, 65534)
        hi == read(s6.ram, 65535)
    IN Out([s6 EXCEPT !.pc = BitOr(hi * 256, lo)], 0)

bvc(s) == Out(IF ~has_flag(s.p, OVERFLOW) THEN branch_taken(s) ELSE s, 0)

bvs(s) == Out(IF has_flag(s.p, OVERFLOW) THEN branch_taken(s) ELSE s, 0)

clc(s) == Out(set_flag(s, CARRY, FALSE), 0)

cld(s) == Out(set_flag(s, DECIMAL, FALSE), 0)

cli(s) == Out(set_flag(s, INTERRUPT_DISABLE, FALSE), 0)

clv(s) == Out(set_flag(s, OVERFLOW, FALSE), 0)

\* set_compare_flags that sets C on a borrow
set_compare_flags_borrow(s, result) ==
    LET s1 == set_flag(s, CARRY, BitAnd(result, 65280) # 0)
        s2 == set_flag(s1, ZERO, BitAnd(result, 255) = 0)
    IN set_flag(s2, NEGATIVE, BitAnd(result, 128) # 0)

set_compare_flags(s, result) ==
    LET s1 == set_flag(s, CARRY, BitAnd(result, 65280) = 0)
        s2 == set_flag(s1, ZERO, BitAnd(result, 255) = 0)
    IN set_flag(s2, NEGATIVE, BitAnd(result, 128) # 0)

cmp(s) == Out(set_compare_flags(s, wrapping_sub16(s.a, fetch(s))), 1)

cpx(s) == Out(set_compare_flags(s, wrapping_sub16(s.x, fetch(s))), 0)

cpy(s) == Out(set_compare_flags(s, wrapping_sub16(s.y, fetch(s))), 0)

dec(s) ==
    LET result == wrapping_sub8(fetch(s), 1)
        s1 == [s EXCEPT !.ram = write(s.ram, s.addr_abs, result)]
        s2 == set_flag(s1, ZERO, result = 0)
    IN Out(set_flag(s2, NEGATIVE, BitAnd(result, 128) # 0), 0)

dex(s) ==
    LET s1 == [s EXCEPT !.x = wrapping_sub8(s.x, 1)]
        s2 == set_flag(s1, ZERO, s1.x = 0)
    IN Out(set_flag(s2, NEGATIVE, BitAnd(s1.x, 128) # 0), 0)

dey(s) ==
    LET s1 == [s EXCEPT !.y = wrapping_sub8(s.y, 1)]
        s2 == set_flag(s1, ZERO, s1.y = 0)
    IN Out(set_flag(s2, NEGATIVE, BitAnd(s1.y, 128) # 0), 0)

eor(s) ==
    LET s1 == [s EXCEPT !.a = BitXor(s.a, fetch(s))]
        s2 == set_flag(s1, ZERO, s1.a = 0)
    IN Out(set_flag(s2, NEGATIVE, BitAnd(s1.a, 128) # 0), 0)

inc(s) ==
    LET result == wrapping_add8(fetch(s), 1)
        s1 == [s EXCEPT !.ram = write(s.ram, s.addr_abs, result)]
        s2 == set_flag(s1, ZERO, result = 0)
    IN Out(set_flag(s2, NEGATIVE, BitAnd(result, 128) # 0), 0)

inx(s) ==
    LET s1 == [s EXCEPT !.x = wrapping_add8(s.x, 1)]
        s2 == set_flag(s1, ZERO, s1.x = 0)
    IN Out(set_flag(s2, NEGATIVE, BitAnd(s1.x, 128) # 0), 0)

iny(s) ==
    LET s1 == [s EXCEPT !.y = wrapping_add8(s.y, 1)]
        s2 == set_flag(s1, ZERO, s1.y = 0)
    IN Out(set_flag(s2, NEGATIVE, BitAnd(s1.y, 128) # 0), 0)

jmp(s) == Out([s EXCEPT !.pc = s.addr_abs], 0)

\* jsr that pushes the address after its operand instead of PC - 1
jsr_pushes_next(s) ==
    LET s2 == [s EXCEPT !.ram = write(s.ram, 256 + s.sp, as_u8(s.pc \div 256)),
                        !.sp = wrapping_sub8(s.sp, 1)]
        s3 == [s2 EXCEPT !.ram = write(s2.ram, 256 + s2.sp, as_u8(s2.pc)),
                         !.sp = wrapping_sub8(s2.sp, 1)]
    IN Out([s3 EXCEPT !.pc = s3.addr_abs], 0)

jsr(s) ==
    LET s1 == [s EXCEPT !.pc = wrapping_sub16(s.pc, 1)]
        s2 == [s1 EXCEPT !.ram = write(s1.ram, 256 + s1.sp, as_u8(s1.pc \div 256)),
                         !.sp = wrapping_sub8(s1.sp, 1)]
        s3 == [s2 EXCEPT !.ram = write(s2.ram, 256 + s2.sp, as_u8(s2.pc)),
                         !.sp = wrapping_sub8(s2.sp, 1)]
    IN Out([s3 EXCEPT !.pc = s3.addr_abs], 0)

lda(s) ==
    LET s1 == [s EXCEPT !.a = fetch(s)]
        s2 == set_flag(s1, ZERO, s1.a = 0)
    IN Out(set_flag(s2, NEGATIVE, BitAnd(s1.a, 128) # 0), 0)

ldx(s) ==
    LET s1 == [s EXCEPT !.x = fetch(s)]
        s2 == set_flag(s1, ZERO, s1.x = 0)
    IN Out(set_flag(s2, NEGATIVE, BitAnd(s1.x, 128) # 0), 0)

ldy(s) ==
    LET s1 == [s EXCEPT !.y = fetch(s)]
        s2 == set_flag(s1, ZERO, s1.y = 0)
    IN Out(set_flag(s2, NEGATIVE, BitAnd(s1.y, 128) # 0), 0)

lsr(s) ==
    LET fetched == fetch(s)
        result == fetched \div 2
        s1 == set_flag(s, CARRY, BitAnd(fetched, 1) # 0)
        s2 == set_flag(s1, ZERO, result = 0)
        s3 == set_flag(s2, NEGATIVE, BitAnd(result, 128) # 0)
    IN Out(IF current_instruction(s).mode = "Imp"
           THEN [s3 EXCEPT !.a = result]
           ELSE [s3 EXCEPT !.ram = write(s.ram, s.addr_abs, result)], 0)

nop(s) == Out(s, 0)

ora(s) ==
    LET s1 == [s EXCEPT !.a = BitOr(s.a, fetch(s))]
        s2 == set_flag(s1, ZERO, s1.a = 0)
    IN Out(set_flag(s2, NEGATIVE, BitAnd(s1.a, 128) # 0), 1)

\* pha whose stack pointer stops at 0 instead of wrapping
pha_saturating_sp(s) ==
    Out([s EXCEPT !.ram = write(s.ram, 256 + s.sp, s.a),
                  !.sp = saturating_sub(s.sp, 1)], 0)

pha(s) ==
    Out([s EXCEPT !.ram = write(s.ram, 256 + s.sp, s.a),
                  !.sp = wrapping_sub8(s.sp, 1)], 0)

php(s) ==
    LET s1 == [s EXCEPT !.ram = write(s.ram, 256 + s.sp, BitOr(BitOr(s.p, BREAK), UNUSED)),
                        !.sp = wrapping_sub8(s.sp, 1)]
    IN Out(set_flag(s1, BREAK, FALSE), 0)

\* pla that reads the stack before raising the stack pointer
pla_reads_before_increment(s) ==
    LET s1 == [s EXCEPT !.a = read(s.ram, 256 + s.sp)]
        s2 == [s1 EXCEPT !.sp = wrapping_add8(s.sp, 1)]
        s3 == set_flag(s2, ZERO, s2.a = 0)
    IN Out(set_flag(s3, NEGATIVE, BitAnd(s2.a, 128) # 0), 0)

pla(s) ==
    LET s1 == [s EXCEPT !.sp = wrapping_add8(s.sp, 1)]
        s2 == [s1 EXCEPT !.a = read(s1.ram, 256 + s1.sp)]
        s3 == set_flag(s2, ZERO, s2.a = 0)
    IN Out(set_flag(s3, NEGATIVE, BitAnd(s2.a, 128) # 0), 0)

\* plp that loads the pulled byte as it is
plp_load_raw(s) ==
    LET s1 == [s EXCEPT !.sp = wrapping_add8(s.sp, 1)]
    IN Out([s1 EXCEPT !.p = read(s1.ram, 256 + s1.sp)], 0)

plp(s) ==
    LET s1 == [s EXCEPT !.sp = wrapping_add8(s.sp, 1)]
        temp == read(s1.ram, 256 + s1.sp)
    IN Out([s1 EXCEPT !.p = BitOr(s1.p, BitAnd(temp, 207))], 0)

rol(s) ==
    LET fetched == fetch(s)
        carry == IF has_flag(s.p, CARRY) THEN 1 ELSE 0
        result == BitOr(as_u8(fetched * 2), carry)
        s1 == set_flag(s, CARRY, BitAnd(fetched, 128) # 0)
        s2 == set_flag(s1, ZERO, result = 0)
        s3 == set_flag(s2, NEGATIVE, BitAnd(result, 128) # 0)
    IN Out(IF current_instruction(s).mode = "Imp"
           THEN [s3 EXCEPT !.a = result]
           ELSE [s3 EXCEPT !.ram = write(s.ram, s.addr_abs, result)], 0)

ror(s) ==
    LET fetched == fetch(s)
        carry == IF has_flag(s.p, CARRY) THEN 1 ELSE 0
        result == BitOr(as_u8(carry * 128), fetched \div 2)
        s1 == set_flag(s, CARRY, BitAnd(fetched, 1) # 0)
        s2 == set_flag(s1, ZERO, result = 0)
        s3 == set_flag(s2, NEGATIVE, BitAnd(result, 128) # 0)
    IN Out(IF current_instruction(s).mode = "Imp"
           THEN [s3 EXCEPT !.a = result]
           ELSE [s3 EXCEPT !.ram = write(s.ram, s.addr_abs, result)], 0)

\* rti that lets the pulled bit B into P (mask 0xDF)
rti_loads_break(s) ==
    LET s1 == [s EXCEPT !.sp = wrapping_add8(s.sp, 1)]
        temp == read(s1.ram, 256 + s1.sp)
        s2 == [s1 EXCEPT !.p = BitOr(s1.p, BitAnd(temp, 223)),
                         !.sp = wrapping_add8(s1.sp, 1)]
        lo == read(s2.ram, 256 + s2.sp)
        s3 == [s2 EXCEPT !.sp = wrapping_add8(s2.sp, 1)]
        hi == read(s3.ram, 256 + s3.sp)
    IN Out([s3 EXCEPT !.pc = BitOr(hi * 256, lo)], 0)

rti(s) ==
    LET s1 == [s EXCEPT !.sp = wrapping_add8(s.sp, 1)]
        temp == read(s1.ram, 256 + s1.sp)
        s2 == [s1 EXCEPT !.p = BitOr(s1.p, BitAnd(temp, 207)),
                         !.sp = wrapping_add8(s1.sp, 1)]
        lo == read(s2.ram, 256 + s2.sp)
        s3 == [s2 EXCEPT !.sp = wrapping_add8(s2.sp, 1)]
        hi == read(s3.ram, 256 + s3.sp)
    IN Out([s3 EXCEPT !.pc = BitOr(hi * 256, lo)], 0)

rts(s) ==
    LET s1 == [s EXCEPT !.sp = wrapping_add8(s.sp, 1)]
        lo == read(s1.ram, 256 + s1.sp)
        s2 == [s1 EXCEPT !.sp = wrapping_add8(s1.sp, 1)]
        hi == read(s2.ram, 256 + s2.sp)
    IN Out([s2 EXCEPT !.pc = wrapping_add16(BitOr(hi * 256, lo), 1)], 0)

\* sbc that subtracts without the borrow held in the carry flag
sbc_without_borrow(s) ==
    LET fetched == fetch(s)
        inverted == Not8(fetched)
        result == wrapping_add16(wrapping_add16(s.a, inverted), 1)
        s1 == set_flag(s, CARRY, BitAnd(result, 65280) # 0)
        s2 == set_flag(s1, ZERO, BitAnd(result, 255) = 0)
        s3 == set_flag(s2, NEGATIVE, BitAnd(result, 128) # 0)
        s4 == set_flag(s3, OVERFLOW, calc_overflow(s.a, inverted, result))
    IN Out([s4 EXCEPT !.a = as_u8(result)], 1)

sbc(s) ==
    LET fetched == fetch(s)
        inverted == Not8(fetched)
        carry == IF has_flag(s.p, CARRY) THEN 1 ELSE 0
        result == wrapping_add16(wrapping_add16(s.a, inverted), carry)
        s1 == set_flag(s, CARRY, BitAnd(result, 65280) # 0)
        s2 == set_flag(s1, ZERO, BitAnd(result, 255) = 0)
        s3 == set_flag(s2, NEGATIVE, BitAnd(result, 128) # 0)
        s4 == set_flag(s3, OVERFLOW, calc_overflow(s.a, inverted, result))
    IN Out([s4 EXCEPT !.a = as_u8(result)], 1)

sec(s) == Out(set_flag(s, CARRY, TRUE), 0)

sed(s) == Out(set_flag(s, DECIMAL, TRUE), 0)

sei(s) == Out(set_flag(s, INTERRUPT_DISABLE, TRUE), 0)

sta(s) == Out([s EXCEPT !.ram = write(s.ram, s.addr_abs, s.a)], 0)

stx(s) == Out([s EXCEPT !.ram = write(s.ram, s.addr_abs, s.x)], 0)

sty(s) == Out([s EXCEPT !.ram = write(s.ram, s.addr_abs, s.y)], 0)

tax(s) ==
    LET s1 == [s EXCEPT !.x = s.a]
        s2 == set_flag(s1, ZERO, s1.x = 0)
    IN Out(set_flag(s2, NEGATIVE, BitAnd(s1.x, 128) # 0), 0)

tay(s) ==
    LET s1 == [s EXCEPT !.y = s.a]
        s2 == set_flag(s1, ZERO, s1.y = 0)
    IN Out(set_flag(s2, NEGATIVE, BitAnd(s1.y, 128) # 0), 0)

tsx(s) ==
    LET s1 == [s EXCEPT !.x = s.sp]
        s2 == set_flag(s1, ZERO, s1.x = 0)
    IN Out(set_flag(s2, NEGATIVE, BitAnd(s1.x, 128) # 0), 0)

txa(s) ==
    LET s1 == [s EXCEPT !.a = s.x]
        s2 == set_flag(s1, ZERO, s1.a = 0)
    IN Out(set_flag(s2, NEGATIVE, BitAnd(s1.a, 128) # 0), 0)

txs(s) == Out([s EXCEPT !.sp = s.x], 0)

tya(s) ==
    LET s1 == [s EXCEPT !.a = s.y]
        s2 == set_flag(s1, ZERO, s1.a = 0)
    IN Out(set_flag(s2, NEGATIVE, BitAnd(s1.a, 128) # 0), 0)

xxx(s) == Out(s, 0)

\* ---- the table's handler references, called through the entry ----
call_addr(mode, s) ==
    CASE mode = "Imp" -> imp(s) [] mode = "Imm" -> imm(s)
      [] mode = "Zp0" -> zp0(s) [] mode = "Zpx" -> zpx(s) [] mode = "Zpy" -> zpy(s)
      [] mode = "Rel" -> rel(s) [] mode = "Abs" -> abs(s)
      [] mode = "Abx" -> abx(s) [] mode = "Aby" -> aby(s)
      [] mode = "Ind" -> ind(s) [] mode = "Izx" -> izx(s) [] mode = "Izy" -> izy(s)

call_operate(name, s) ==
    CASE name = "adc" -> adc(s) [] name = "and" -> and(s) [] name = "asl" -> asl(s)
      [] name = "bcc" -> bcc(s) [] name = "bcs" -> bcs(s) [] name = "beq" -> beq(s)
      [] name = "bit" -> bit(s) [] name = "bmi" -> bmi(s) [] name = "bne" -> bne(s)
      [] name = "bpl" -> bpl(s) [] name = "brk" -> brk(s) [] name = "bvc" -> bvc(s)
      [] name = "bvs" -> bvs(s) [] name = "clc" -> clc(s) [] name = "cld" -> cld(s)
      [] name = "cli" -> cli(s) [] name = "clv" -> clv(s) [] name = "cmp" -> cmp(s)
      [] name = "cpx" -> cpx(s) [] name = "cpy" -> cpy(s) [] name = "dec" -> dec(s)
      [] name = "dex" -> dex(s) [] name = "dey" -> dey(s) [] name = "eor" -> eor(s)
      [] name = "inc" -> inc(s) [] name = "inx" -> inx(s) [] name = "iny" -> iny(s)
      [] name = "jmp" -> jmp(s) [] name = "jsr" -> jsr(s) [] name = "lda" -> lda(s)
      [] name = "ldx" -> ldx(s) [] name = "ldy" -> ldy(s) [] name = "lsr" -> lsr(s)
      [] name = "nop" -> nop(s) [] name = "ora" -> ora(s) [] name = "pha" -> pha(s)
      [] name = "php" -> php(s) [] name = "pla" -> pla(s) [] name = "plp" -> plp(s)
      [] name = "rol" -> rol(s) [] name = "ror" -> ror(s) [] name = "rti" -> rti(s)
      [] name = "rts" -> rts(s) [] name = "sbc" -> sbc(s) [] name = "sec" -> sec(s)
      [] name = "sed" -> sed(s) [] name = "sei" -> sei(s) [] name = "sta" -> sta(s)
      [] name = "stx" -> stx(s) [] name = "sty" -> sty(s) [] name = "tax" -> tax(s)
      [] name = "tay" -> tay(s) [] name = "tsx" -> tsx(s) [] name = "txa" -> txa(s)
      [] name = "txs" -> txs(s) [] name = "tya" -> tya(s) [] name = "xxx" -> xxx(s)

\* ---- the public entry points ----
\* reset that keeps the old flags and only forces U
reset_keeps_flags(s) ==
    LET lo == read(s.ram, ADDR_RESET_VECTOR)
        hi == read(s.ram, ADDR_RESET_VECTOR + 1)
    IN [s EXCEPT !.pc = BitOr(hi * 256, lo),
                 !.a = 0, !.x = 0, !.y = 0, !.sp = 253, !.p = BitOr(s.p, UNUSED),
                 !.addr_abs = 0, !.addr_rel = 0, !.cycles = 8]

reset(s) ==
    LET lo == read(s.ram, ADDR_RESET_VECTOR)
        hi == read(s.ram, ADDR_RESET_VECTOR + 1)
    IN [s EXCEPT !.pc = BitOr(hi * 256, lo),
                 !.a = 0, !.x = 0, !.y = 0, !.sp = 253, !.p = UNUSED,
                 !.addr_abs = 0, !.addr_rel = 0, !.cycles = 8]

\* step_execute without the final charge for the tick that fetched
step_execute_uncharged(s) ==
    LET s1 == [s EXCEPT !.opcode = read(s.ram, s.pc),
                        !.pc = wrapping_add16(s.pc, 1)]
        ins == current_instruction(s1)
        s2 == [s1 EXCEPT !.cycles = ins.cycles]
        m == call_addr(ins.mode, s2)
        o == call_operate(ins.operate, m.cpu)
    IN [o.cpu EXCEPT !.cycles = o.cpu.cycles + BitAnd(m.ret, o.ret)]

\* step, at an instruction boundary: fetch, decode, execute, charge the tick
step_execute(s) ==
    LET s1 == [s EXCEPT !.opcode = read(s.ram, s.pc),
                        !.pc = wrapping_add16(s.pc, 1)]
        ins == current_instruction(s1)
        s2 == [s1 EXCEPT !.cycles = ins.cycles]
        m == call_addr(ins.mode, s2)
        o == call_operate(ins.operate, m.cpu)
        s3 == [o.cpu EXCEPT !.cycles = o.cpu.cycles + BitAnd(m.ret, o.ret)]
    IN [s3 EXCEPT !.cycles = saturating_sub(s3.cycles, 1)]

\* step_wait without its early return: the fetch follows the decrement
step_wait_falls_through(s) ==
    step_execute([s EXCEPT !.cycles = saturating_sub(s.cycles, 1)])

\* step, while the instruction in flight still has cycles to burn
step_wait(s) == [s EXCEPT !.cycles = saturating_sub(s.cycles, 1)]

step(s) == IF s.cycles > 0 THEN step_wait(s) ELSE step_execute(s)

\* the interrupt entry sequence with the pushed status, vector and cycle
\* count left open, for the faulty variants below
entry_sequence(s, status, vector, charged) ==
    LET s1 == [s EXCEPT !.ram = write(s.ram, 256 + s.sp, as_u8(s.pc \div 256)),
                        !.sp = wrapping_sub8(s.sp, 1)]
        s2 == [s1 EXCEPT !.ram = write(s1.ram, 256 + s1.sp, as_u8(s1.pc)),
                         !.sp = wrapping_sub8(s1.sp, 1)]
        s3 == [s2 EXCEPT !.ram = write(s2.ram, 256 + s2.sp, status),
                         !.sp = wrapping_sub8(s2.sp, 1)]
        s4 == set_flag(set_flag(s3, BREAK, FALSE), INTERRUPT_DISABLE, TRUE)
    IN [s4 EXCEPT !.pc = BitOr(read(s4.ram, vector + 1) * 256, read(s4.ram, vector)),
                  !.cycles = charged]

\* irq that never looks at flag I
irq_unmasked(s) == entry_sequence(s, s.p, 65534, 7)

\* irq that pushes the status with B set, as brk does
irq_pushes_break(s) ==
    IF has_flag(s.p, INTERRUPT_DISABLE) THEN s
    ELSE entry_sequence(s, BitOr(s.p, BREAK), 65534, 7)

\* nmi that honours flag I, as irq does
nmi_masked(s) ==
    IF has_flag(s.p, INTERRUPT_DISABLE) THEN s
    ELSE entry_sequence(s, s.p, 65530, 8)

irq(s) ==
    IF has_flag(s.p, INTERRUPT_DISABLE)
    THEN s
    ELSE LET s1 == [s EXCEPT !.ram = write(s.ram, 256 + s.sp, as_u8(s.pc \div 256)),
                             !.sp = wrapping_sub8(s.sp, 1)]
             s2 == [s1 EXCEPT !.ram = write(s1.ram, 256 + s1.sp, as_u8(s1.pc)),
                              !.sp = wrapping_sub8(s1.sp, 1)]
             s3 == [s2 EXCEPT !.ram = write(s2.ram, 256 + s2.sp, s2.p),
                              !.sp = wrapping_sub8(s2.sp, 1)]
             s4 == set_flag(set_flag(s3, BREAK, FALSE), INTERRUPT_DISABLE, TRUE)
             lo == read(s4.ram, 65534)
             hi == read(s4.ram, 65535)
         IN [s4 EXCEPT !.pc = BitOr(hi * 256, lo), !.cycles = 7]

nmi(s) ==
    LET s1 == [s EXCEPT !.ram = write(s.ram, 256 + s.sp, as_u8(s.pc \div 256)),
                        !.sp = wrapping_sub8(s.sp, 1)]
        s2 == [s1 EXCEPT !.ram = write(s1.ram, 256 + s1.sp, as_u8(s1.pc)),
                         !.sp = wrapping_sub8(s1.sp, 1)]
        s3 == [s2 EXCEPT !.ram = write(s2.ram, 256 + s2.sp, s2.p),
                         !.sp = wrapping_sub8(s2.sp, 1)]
        s4 == set_flag(set_flag(s3, BREAK, FALSE), INTERRUPT_DISABLE, TRUE)
        lo == read(s4.ram, 65530)
        hi == read(s4.ram, 65531)
    IN [s4 EXCEPT !.pc = BitOr(hi * 256, lo), !.cycles = 8]

\* the loop of step_to_next_instruction: one step, then steps while
\* cycles != 0; entered tells that the first step has been made
RECURSIVE step_until_idle(_, _)
step_until_idle(s, entered) ==
    IF ~entered \/ s.cycles # 0 THEN step_until_idle(step(s), TRUE) ELSE s

\* step_to_next_instruction going on through a second instruction
step_through_two(s) == step_until_idle(step_until_idle(s, FALSE), FALSE)

step_to_next_instruction(s) == step_until_idle(s, FALSE)

(***************************************************************************)
(* NES bus (nes/bus.rs): CPU-side and PPU-side routing over its own 64 KiB *)
(* array, held like the flat bus as the function of the cells stored to.   *)
(***************************************************************************)
ADDR_PRG_ROM == 32768

\* nes_cpu_read without the mask on internal RAM
nes_cpu_read_unmirrored(mem, addr) ==
    IF addr < 16384 /\ addr >= 8192 THEN read(mem, 8192 + BitAnd(addr, 7))
    ELSE IF addr < 16407 THEN read(mem, addr)
    ELSE IF addr >= 32768 THEN read(mem, addr)
    ELSE 0

nes_cpu_read(mem, addr) ==
    IF addr < 8192 THEN read(mem, BitAnd(addr, 2047))
    ELSE IF addr < 16384 THEN read(mem, 8192 + BitAnd(addr, 7))
    ELSE IF addr < 16407 THEN read(mem, addr)
    ELSE IF addr >= 32768 THEN read(mem, addr)
    ELSE 0

\* nes_cpu_write storing at every address above internal RAM too
nes_cpu_write_through(mem, addr, data) ==
    IF addr < 8192 THEN write(mem, BitAnd(addr, 2047), data)
    ELSE write(mem, addr, data)

nes_cpu_write(mem, addr, data) ==
    IF addr < 8192 THEN write(mem, BitAnd(addr, 2047), data) ELSE mem

ppu_read(mem, addr) ==
    IF addr < 8192 THEN read(mem, BitAnd(addr, 2047)) ELSE 0

ppu_write(mem, addr, data) == write(mem, addr, data)

(***************************************************************************)
(* Cartridge and mapper (nes/cartridge.rs, nes/mapper.rs).  A Vec<u8> is   *)
(* its length and the function of its non-zero cells.  A call returns      *)
(* kind "Ok" with its value, kind "Err" with the error text, or kind        *)
(* "panic" when the call unwinds.                                           *)
(***************************************************************************)
vec_at(v, i) == IF i \in DOMAIN v.at THEN v.at[i] ELSE 0

\* Vec::get(i).copied().unwrap_or(0)
vec_get_or_zero(v, i) == IF i >= 0 /\ i < v.len THEN vec_at(v, i) ELSE 0

\* buffer[start .. start + size].to_vec()
vec_slice(v, start, size) ==
    [len |-> size,
     at |-> [i \in {k - start : k \in {j \in DOMAIN v.at : j >= start /\ j < start + size}}
                |-> v.at[i + start]]]

Returned(value) == [kind |-> "Ok", value |-> value]
Failed(text) == [kind |-> "Err", value |-> text]
Panicked == [kind |-> "panic", value |-> 0]

get_mirroring(flag6) ==
    IF BitAnd(flag6, 8) # 0 THEN "FourScreen"
    ELSE IF BitAnd(flag6, 1) # 0 THEN "Vertical"
    ELSE "Horizontal"

\* from_id that takes every mapper ID for NROM
from_id_any(mapper_id) == "Nrom"

\* MapperKind::from_id; "None" for an id without a mapper
from_id(mapper_id) == IF mapper_id = 0 THEN "Nrom" ELSE "None"

\* Cartridge::from_rom on the bytes read from the file.  Indexing past the
\* end of the buffer panics: the magic slice, header bytes 4..7 before the
\* mapper test, byte 8 after it, and the PRG/CHR slices behind a trainer.
from_rom(buffer) ==
    LET nb_prg_banks == vec_at(buffer, 4)
        prg_size == nb_prg_banks * 16 * 1024
        chr_size == vec_at(buffer, 5) * 8 * 1024
        flag6 == vec_at(buffer, 6)
        flag7 == vec_at(buffer, 7)
        mapper_id == BitOr(BitAnd(flag7, 240), flag6 \div 16)
        prg_ram_size == IF vec_at(buffer, 8) = 0 THEN 1 ELSE vec_at(buffer, 8)
        prg_start == 16 + (IF BitAnd(flag6, 4) # 0 THEN 512 ELSE 0)
    IN IF buffer.len < 4 THEN Panicked
       ELSE IF <<vec_at(buffer, 0), vec_at(buffer, 1), vec_at(buffer, 2),
                 vec_at(buffer, 3)>> # <<78, 69, 83, 26>>
       THEN Failed("Invalid NES header")
       ELSE IF buffer.len < 8 THEN Panicked
       ELSE IF from_id(mapper_id) = "None" THEN Failed("Unsupported mapper")
       ELSE IF buffer.len < 9 THEN Panicked
       ELSE IF buffer.len < 16 + prg_size + chr_size
       THEN Failed("ROM file too small for declared PRG/CHR size")
       ELSE IF buffer.len < prg_start + prg_size + chr_size THEN Panicked
       ELSE Returned([nb_prg_banks |-> nb_prg_banks,
                      prg_rom |-> vec_slice(buffer, prg_start, prg_size),
                      chr_rom |-> vec_slice(buffer, prg_start + prg_size, chr_size),
                      prg_ram_size |-> prg_ram_size,
                      mapper |-> from_id(mapper_id),
                      state |-> [prg_ram |-> [len |-> 0, at |-> << >>],
                                 mirroring |-> get_mirroring(flag6)]])

\* Cartridge::from_program: the parsed bytes at the start of a 32 KiB PRG
\* image whose reset vector is 0x8000; a token that does not parse is an Err
from_program(program) ==
    LET program_bytes == [i \in 1 .. Len(program) |-> from_str_radix(program[i])]
        reset_offset == ADDR_RESET_VECTOR - ADDR_PRG_ROM
        cells == [k \in ({i - 1 : i \in {j \in 1 .. Len(program) : program_bytes[j] # 0}}
                            \ {reset_offset})
                        \cup {reset_offset + 1} |->
                     IF k = reset_offset + 1 THEN 128 ELSE program_bytes[k + 1]]
    IN IF \E i \in 1 .. Len(program) : program_bytes[i] < 0
       THEN Failed("Invalid hex")
       ELSE IF Len(program) > 32768 THEN Panicked
       ELSE Returned([nb_prg_banks |-> 2,
                      prg_rom |-> [len |-> 32768, at |-> cells],
                      chr_rom |-> [len |-> 0, at |-> << >>],
                      prg_ram_size |-> 1,
                      mapper |-> from_id(0),
                      state |-> [prg_ram |-> [len |-> 0, at |-> << >>],
                                 mirroring |-> "Horizontal"]])

\* usize arithmetic: the width is the target's (32 or 64 bits).  What the
\* mapper uses of a wrapped difference, its low 14 bits and its being past
\* the end of prg_rom, is the same for every width above 16 bits; 2^30 is
\* taken here.
UsizeModulus == 2 ^ 30

\* NromMapper::cpu_read.  addr - ADDR_PRG_ROM underflows below 0x8000: with
\* overflow checks (debug profile) the call panics, without them (release
\* profile) the difference wraps.
nrom_cpu_read(addr, cart, overflow_checks) ==
    LET offset == (addr - ADDR_PRG_ROM + UsizeModulus) % UsizeModulus
        mapped_addr == IF cart.nb_prg_banks = 1 THEN BitAnd(offset, 16383) ELSE offset
    IN IF addr < ADDR_PRG_ROM /\ overflow_checks THEN Panicked
       ELSE Returned(vec_get_or_zero(cart.prg_rom, mapped_addr))

\* NromMapper::cpu_write is todo!(): the call panics
nrom_cpu_write(addr, data, state) == Panicked

\* Cartridge::cpu_read / cpu_write through MapperKind's delegation
cartridge_cpu_read(cart, addr, overflow_checks) ==
    nrom_cpu_read(addr, cart, overflow_checks)

cartridge_cpu_write(cart, addr, data) == nrom_cpu_write(addr, data, cart.state)

(***************************************************************************)
(* Memory images the driver starts from.  Each is Bus::default() after     *)
(* load_program, with further bytes (vectors, handlers, data) stored.      *)
(***************************************************************************)
store_bytes(mem, base, bytes) ==
    [k \in (DOMAIN mem) \cup (base .. base + Len(bytes) - 1) |->
        IF k >= base /\ k < base + Len(bytes) THEN bytes[k - base + 1] ELSE mem[k]]

\* IRQ/BRK vector -> 0x9000 (RTI), NMI vector -> 0x9010 (RTI)
with_handlers(mem) ==
    store_bytes(store_bytes(store_bytes(store_bytes(mem,
        65534, <<0, 144>>), 65530, <<16, 144>>), 36864, <<64>>), 36880, <<64>>)

\* the two-digit upper-case hex text of a byte sequence
hex_text(bytes) ==
    LET digits == <<"0", "1", "2", "3", "4", "5", "6", "7",
                    "8", "9", "A", "B", "C", "D", "E", "F">>
    IN [i \in 1 .. Len(bytes) |->
           <<digits[(bytes[i] \div 16) + 1], digits[(bytes[i] % 16) + 1]>>]

\* LDX #spv; TXS; LDA #av; PHA; PLA; PHP; PLP; JSR $8012; BRK; NOP;
\* JMP $800E; NOP; RTS
StackProgram(spv, av) ==
    <<162, spv, 154, 169, av, 72, 104, 8, 40, 32, 18, 128, 0, 234,
      76, 14, 128, 234, 96>>

\* LDA #av; PHA; PLP; PHP; PLA; CLI; JMP $8007
FlagProgram(av) == <<169, av, 72, 40, 8, 104, 88, 76, 7, 128>>

\* JMP $80F8, continued at 0x80F8 by LDA #0; BEQ +4; NOP*4 | 8100: BNE +2;
\* BEQ +2; NOP; NOP; JMP $8106
BranchProgram == <<76, 248, 128>>

\* LDX #$FF; ADC $2001,X; ADC $2000,X; LDA $2001,X; STA $2001,X; LDY #1;
\* ORA $20FF,Y; JMP $8013
IndexProgram ==
    <<162, 255, 125, 1, 32, 125, 0, 32, 189, 1, 32, 157, 1, 32, 160, 1,
      25, 255, 32, 76, 19, 128>>

\* LDX #10; STX $0000; LDX #3; STX $0001; LDY $0000; LDA #0; CLC;
\* loop: ADC $0001; DEY; BNE loop; STA $0002; NOP; NOP; NOP
MultiplyProgram ==
    <<
      <<"A", "2">>, <<"0", "A">>, <<"8", "E">>, <<"0", "0">>, <<"0", "0">>,
      <<"A", "2">>, <<"0", "3">>, <<"8", "E">>, <<"0", "1">>, <<"0", "0">>,
      <<"A", "C">>, <<"0", "0">>, <<"0", "0">>, <<"A", "9">>, <<"0", "0">>,
      <<"1", "8">>, <<"6", "D">>, <<"0", "1">>, <<"0", "0">>, <<"8", "8">>,
      <<"D", "0">>, <<"F", "A">>, <<"8", "D">>, <<"0", "2">>, <<"0", "0">>,
      <<"E", "A">>, <<"E", "A">>, <<"E", "A">> >>

\* SEI; JMP $C000, continued at 0xC000 by JMP $C000
NmiProgram == <<120, 76, 0, 192>>

\* the stack program for SP in {0x00, 0x01, 0xFD, 0xFF} and A in
\* {0x00, 0x01, 0x80, 0xFF}, the flag program for those A and 0xCF, and the
\* branch, index and NMI programs
Images ==
    { with_handlers(load_program(BusDefault, hex_text(StackProgram(spv, av)))) :
          spv \in {0, 1, 253, 255}, av \in {0, 1, 128, 255} }
    \cup { with_handlers(load_program(BusDefault, hex_text(FlagProgram(av)))) :
          av \in {0, 1, 128, 255, 207} }
    \cup { with_handlers(store_bytes(load_program(BusDefault, hex_text(BranchProgram)),
                                     33016,
                                     <<169, 0, 240, 4, 234, 234, 234, 234, 208, 2,
                                       240, 2, 234, 234, 76, 6, 129>>)),
           with_handlers(load_program(BusDefault, hex_text(IndexProgram))),
           with_handlers(store_bytes(load_program(BusDefault, hex_text(NmiProgram)),
                                     49152, <<76, 0, 192>>)) }

\* LDX #xv; LDY #yv; LDA #f; PHA; PLP; JMP loc -- sets the index registers
\* and the flags (PLP ORs bits 0-3, 6, 7 of f into P), then enters the
\* instruction stored at loc
Prologue(xv, yv, f, loc) ==
    <<162, xv, 160, yv, 169, f, 72, 40, 76, loc % 256, loc \div 256>>

\* the prologue loaded at 0x8000, the instruction stored at loc, and the data
\* the probed instructions read: both ends of page zero, the two bytes above
\* it, and the pointer bytes around 0x0FFF and 0x10FF
ProbeImage(xv, yv, f, loc, instruction, above) ==
    LET loaded == load_program(BusDefault, hex_text(Prologue(xv, yv, f, loc)))
        low == store_bytes(store_bytes(store_bytes(loaded,
                   0, <<17, 34, 51>>), 126, <<119, 136, 153>>),
                   254, <<68, 85, 102, 112>>)
        pointers == store_bytes(store_bytes(low,
                   4094, <<16, 32, 64, 48>>), 4350, <<112, 128, above, 144>>)
    IN store_bytes(pointers, loc, instruction)

\* JMP (ptr) for pointers at, next to and away from the end of a page, with
\* three different bytes at 0x1100
IndirectImages ==
    { ProbeImage(0, 0, 16, 32784, <<108, ptr % 256, ptr \div 256>>, above) :
          ptr \in {4351, 4350, 4352, 255, 4095}, above \in {0, 80, 153} }

\* LDA zp,X; STA zp,X; LDX zp,Y; STX zp,Y; LDA (zp,X) with X = Y = idx
ZeroPageImages ==
    { ProbeImage(idx, idx, 16, 32784, <<op, operand>>, 0) :
          op \in {181, 149, 182, 150, 161}, operand \in {0, 126, 254, 255},
          idx \in {0, 1, 2, 255} }

\* BPL, BMI, BVC, BVS, BCC, BCS, BNE, BEQ with offsets +2, -3, +127, -128,
\* in mid-page, before and at a page end and at both ends of the address
\* space, entered with no flag, C, Z, V, N or all four set
BranchImages ==
    { ProbeImage(0, 0, f, loc, <<op, off>>, 0) :
          op \in {16, 48, 80, 112, 144, 176, 208, 240},
          off \in {2, 253, 127, 128},
          loc \in {32784, 33021, 33022, 65520, 16},
          f \in {16, 1, 2, 64, 128, 195} }

ProbeImages == IndirectImages \cup ZeroPageImages \cup BranchImages

(***************************************************************************)
(* The machine and its driver.                                             *)
(***************************************************************************)
VARIABLES a, x, y, sp, pc, p, addr_abs, addr_rel, opcode, cycles, ram,
          started, events, lastCall, prev, ticks, hist,
          nes_ram, cart, nesCall, nesWrites

\* the CPU with its flat bus and driver; the NES bus and the cartridge
machine_vars == <<a, x, y, sp, pc, p, addr_abs, addr_rel, opcode, cycles, ram,
                  started, events, lastCall, prev, ticks, hist>>

nes_vars == <<nes_ram, cart, nesCall, nesWrites>>

vars == <<machine_vars, nes_vars>>

\* driver events (interrupts taken, resets after the first) explored per run
MaxEvents == 2

Machine ==
    [a |-> a, x |-> x, y |-> y, sp |-> sp, pc |-> pc, p |-> p,
     addr_abs |-> addr_abs, addr_rel |-> addr_rel, opcode |-> opcode,
     cycles |-> cycles, ram |-> ram]

Becomes(s) ==
    /\ a' = s.a /\ x' = s.x /\ y' = s.y /\ sp' = s.sp /\ pc' = s.pc /\ p' = s.p
    /\ addr_abs' = s.addr_abs /\ addr_rel' = s.addr_rel
    /\ opcode' = s.opcode /\ cycles' = s.cycles /\ ram' = s.ram

\* no call made yet on the NES bus or the cartridge
NoCall == [name |-> "none", addr |-> 0, data |-> 0, result |-> Returned(0),
           before |-> << >>]

\* the NES bus and a cartridge constructed and left alone
NesIdle ==
    /\ nes_ram = BusDefault /\ cart = from_program(<< >>).value
    /\ nesCall = NoCall /\ nesWrites = 0

\* CPU::default() beside a bus holding the image; reset not yet called
InitMachine(mem) ==
    /\ a = 0 /\ x = 0 /\ y = 0 /\ sp = 0 /\ pc = 0 /\ p = 0
    /\ addr_abs = 0 /\ addr_rel = 0 /\ opcode = 0 /\ cycles = 0
    /\ ram = mem
    /\ started = FALSE /\ events = 0 /\ lastCall = "none"
    /\ prev = CpuDefault(mem) /\ ticks = 0 /\ hist = << >>

InitWith(mem) == InitMachine(mem) /\ NesIdle

Init == \E mem \in Images : InitWith(mem)

\* the driver calls reset first, and may reset again later
Reset ==
    /\ ~started \/ events < MaxEvents
    /\ \E s \in {reset(Machine)} : Becomes(s)
    /\ started' = TRUE
    /\ events' = IF started THEN events + 1 ELSE events
    /\ lastCall' = "reset"
    /\ prev' = Machine
    /\ ticks' = 0
    /\ hist' = << >>
    /\ UNCHANGED nes_vars

\* the registers an instruction started from, for the last two instructions
\* executed back to back
Noted(h, s) ==
    LET from == [operate |-> get_instruction(read(s.ram, s.pc)).operate,
                 a |-> s.a, sp |-> s.sp, pc |-> s.pc, p |-> s.p]
    IN IF h = << >> THEN <<from>> ELSE <<h[Len(h)], from>>

\* one clock tick; ticks counts the step calls of the instruction in flight
Step ==
    /\ started
    /\ \E s \in {step(Machine)} : Becomes(s)
    /\ lastCall' = "step"
    /\ prev' = Machine
    /\ ticks' = IF cycles = 0 THEN 1 ELSE IF ticks > 0 THEN ticks + 1 ELSE 0
    /\ hist' = IF cycles = 0 THEN Noted(hist, Machine) ELSE hist
    /\ UNCHANGED <<started, events>>
    /\ UNCHANGED nes_vars

Irq ==
    /\ started
    /\ has_flag(p, INTERRUPT_DISABLE) \/ events < MaxEvents
    /\ \E s \in {irq(Machine)} : Becomes(s)
    /\ lastCall' = "irq"
    /\ prev' = Machine
    /\ events' = IF has_flag(p, INTERRUPT_DISABLE) THEN events ELSE events + 1
    /\ ticks' = IF has_flag(p, INTERRUPT_DISABLE) THEN ticks ELSE 0
    /\ hist' = IF has_flag(p, INTERRUPT_DISABLE) THEN hist ELSE << >>
    /\ UNCHANGED started
    /\ UNCHANGED nes_vars

Nmi ==
    /\ started
    /\ events < MaxEvents
    /\ \E s \in {nmi(Machine)} : Becomes(s)
    /\ lastCall' = "nmi"
    /\ prev' = Machine
    /\ events' = events + 1
    /\ ticks' = 0
    /\ hist' = << >>
    /\ UNCHANGED started
    /\ UNCHANGED nes_vars

\* the debug driver's step to the next instruction boundary; it ends between
\* instructions, so the tick count of an instruction in flight starts over
StepToNext ==
    /\ started
    /\ \E s \in {step_to_next_instruction(Machine)} : Becomes(s)
    /\ ticks' = 0
    /\ lastCall' = "step_to_next_instruction"
    /\ prev' = Machine
    /\ hist' = IF cycles = 0 THEN Noted(hist, Machine) ELSE hist
    /\ UNCHANGED <<started, events>>
    /\ UNCHANGED nes_vars

Next == Reset \/ Step \/ Irq \/ Nmi

Spec == Init /\ [][Next]_vars

\* the debug driver: the images that begin with JMP (branch program), SEI
\* (NMI program) or LDX #$FF; ADC abs,X (index program), run by single ticks,
\* by whole instructions and through interrupts
SpecRun ==
    /\ \E mem \in {m \in Images : read(m, 32768) \in {76, 120} \/ read(m, 32770) = 125} :
           InitWith(mem)
    /\ [][Next \/ StepToNext]_vars

\* the multiply program run as main runs it: reset, then step after step,
\* followed while PC is inside the 28 bytes loaded at 0x8000
PowerOn == ~started /\ Reset

InProgram == pc < 32768 + Len(MultiplyProgram) \/ cycles > 0

StepProgram == InProgram /\ Step

\* the loop of main keeps calling step: weak fairness of StepProgram, whose
\* enabling condition is started /\ InProgram since step is total and
\* every call changes lastCall, prev or cycles
StepFairness == []<>(~(started /\ InProgram)) \/ []<><<StepProgram>>_vars

SpecMul ==
    /\ InitWith(load_program(BusDefault, MultiplyProgram))
    /\ [][PowerOn \/ StepProgram]_vars
    /\ WF_vars(PowerOn) /\ StepFairness

\* one instruction run on its own: reset, the prologue, then the instruction
\* at the prologue's jump target until its last tick
\* 0x8008 holds the JMP that ends the prologue
ProbeDone == cycles = 0 /\ Len(hist) = 2 /\ hist[1].pc = 32768 + 8

StepProbe == ~ProbeDone /\ Step

SpecProbe ==
    /\ \E mem \in ProbeImages : InitWith(mem)
    /\ [][PowerOn \/ StepProbe]_vars

(***************************************************************************)
(* Single operations run from reset on programs that set up their inputs.  *)
(***************************************************************************)
\* LDA #f; PHA; PLP (C, D and V taken from f); a load of the register; the
\* operation with an immediate operand; then opcode 0x02, where the run is
\* left
AluImages ==
    { load_program(BusDefault,
                   hex_text(<<169, f, 72, 40, ops[1], rv, ops[2], m, 2>>)) :
          f \in {0, 1, 8, 9, 64, 65, 72, 73},
          ops \in {<<169, 105>>, <<169, 233>>, <<169, 201>>, <<162, 224>>, <<160, 192>>},
          rv \in {0, 1, 80, 127, 128, 208, 255},
          m \in {0, 1, 80, 127, 128, 208, 255} }
    \* LDA #f; PHA; PLP; LDA #rv; BIT at; 0x02, with m stored at the
    \* address tested: 0x0010, or 0x800A behind the program
    \cup { store_bytes(load_program(BusDefault,
                                   hex_text(<<169, f, 72, 40, 169, rv,
                                              44, at % 256, at \div 256, 2>>)),
                      at, <<m>>) :
          f \in {0, 1, 64, 128, 193},
          at \in {16, 32778},
          rv \in {0, 1, 80, 127, 128, 208, 255},
          m \in {0, 1, 80, 127, 128, 208, 255} }

\* LDA #v; PHA; CLC/SEC; CLD/SED; PLP -- CLC; PHP; SEC; PLP --
\* LDX #spv; TXS; three pushes of a return address and a status byte;
\* CLC/SEC; CLD/SED; RTI -- LDX #spv; TXS; CLI/SEI; CLC/SEC; BRK;
\* with 0x02 after PLP, at the address RTI returns to and at the BRK handler
StackImages ==
    { load_program(BusDefault, hex_text(<<169, v, 72, c, d, 40, 2>>)) :
          v \in {0, 255, 48, 195, 12}, c \in {24, 56}, d \in {216, 248} }
    \cup { load_program(BusDefault, hex_text(<<24, 8, 56, 40, 2>>)) }
    \cup { store_bytes(load_program(BusDefault,
                           hex_text(<<162, spv, 154, 169, target \div 256, 72,
                                      169, target % 256, 72, 169, v, 72, c, d, 64>>)),
                       target, <<2>>) :
               spv \in {253, 1}, target \in {36864, 255},
               v \in {0, 255, 48, 195, 12}, c \in {24, 56}, d \in {216, 248} }
    \cup { store_bytes(store_bytes(load_program(BusDefault,
                                       hex_text(<<162, spv, 154, i, c, 0, 234, 2>>)),
                                   65534, <<0, 144>>), 36864, <<2>>) :
               spv \in {253, 1, 0}, i \in {88, 120}, c \in {24, 56} }

\* LDX #spv; TXS; JMP loc, with JSR $9000 at loc, RTS at 0x9000 and 0x02
\* after the JSR; the JSR at 0xFFFD puts its opcode in the high byte of the
\* reset vector, so that run starts at 0x2000 and returns to 0x0000
CallImages ==
    { store_bytes(store_bytes(store_bytes(store_bytes(load_program(BusDefault, << >>),
          IF loc = 65533 THEN 8192 ELSE 32768,
          <<162, spv, 154, 76, loc % 256, loc \div 256>>),
          36864, <<96>>),
          (loc + 3) % 65536, <<2>>),
          loc, <<32, 0, 144>>) :
          spv \in {253, 1, 0}, loc \in {32774, 33021, 65533} }

\* the run has reached opcode 0x02 at an instruction boundary
OpsDone == cycles = 0 /\ read(ram, pc) = 2

StepOps == ~OpsDone /\ Step

SpecOps ==
    /\ \E mem \in AluImages \cup StackImages \cup CallImages : InitWith(mem)
    /\ [][PowerOn \/ StepOps]_vars

(***************************************************************************)
(* The NES bus driven call by call.                                        *)
(***************************************************************************)
\* writes made per run
MaxWrites == 2

\* addresses at the ends of each routed range and on both sides of each
\* mirror, and the data bytes written
NesAddresses ==
    {0, 2047, 2048, 8191, 8192, 8199, 8200, 16383,
     16384, 16406, 16407, 16408, 16415, 16416, 32768, 65532}

\* Bus::new, and the same with load_program called on it; the CPU idle
InitBus ==
    /\ InitMachine(BusDefault)
    /\ nes_ram \in {BusDefault, load_program(BusDefault, MultiplyProgram)}
    /\ cart = from_program(<< >>).value /\ nesCall = NoCall /\ nesWrites = 0

Called(name, addr, data, result, before) ==
    [name |-> name, addr |-> addr, data |-> data, result |-> result,
     before |-> before]

CpuRead ==
    /\ \E addr \in NesAddresses :
           nesCall' = Called("cpu_read", addr, 0,
                             Returned(nes_cpu_read(nes_ram, addr)), nes_ram)
    /\ UNCHANGED <<nes_ram, cart, nesWrites>>
    /\ UNCHANGED machine_vars

CpuWrite ==
    /\ nesWrites < MaxWrites
    /\ \E addr \in NesAddresses, data \in {90, 165} :
           /\ nes_ram' = nes_cpu_write(nes_ram, addr, data)
           /\ nesCall' = Called("cpu_write", addr, data, Returned(0), nes_ram)
    /\ nesWrites' = nesWrites + 1
    /\ UNCHANGED cart
    /\ UNCHANGED machine_vars

PpuRead ==
    /\ \E addr \in NesAddresses :
           nesCall' = Called("ppu_read", addr, 0,
                             Returned(ppu_read(nes_ram, addr)), nes_ram)
    /\ UNCHANGED <<nes_ram, cart, nesWrites>>
    /\ UNCHANGED machine_vars

PpuWrite ==
    /\ nesWrites < MaxWrites
    /\ \E addr \in NesAddresses, data \in {90, 165} :
           /\ nes_ram' = ppu_write(nes_ram, addr, data)
           /\ nesCall' = Called("ppu_write", addr, data, Returned(0), nes_ram)
    /\ nesWrites' = nesWrites + 1
    /\ UNCHANGED cart
    /\ UNCHANGED machine_vars

SpecBus == InitBus /\ [][CpuRead \/ CpuWrite \/ PpuRead \/ PpuWrite]_vars

(***************************************************************************)
(* A cartridge read and written through its mapper.                        *)
(***************************************************************************)
\* an iNES file: the 16-byte header, then nb_prg PRG banks holding prg_cells
RomFile(nb_prg, flag6, flag7, prg_cells) ==
    LET header == <<78, 69, 83, 26, nb_prg, 0, flag6, flag7>>
        filled == {i \in 1 .. 8 : header[i] # 0}
    IN [len |-> 16 + nb_prg * 16384,
        at |-> [k \in {i - 1 : i \in filled} \cup {16 + c : c \in DOMAIN prg_cells}
                   |-> IF k < 16 THEN header[k + 1] ELSE prg_cells[k - 16]]]

\* a one-bank file with bytes at the start, middle and end of its bank, a
\* two-bank file likewise, and the multiply program
Cartridges ==
    {from_rom(RomFile(1, 0, 0,
                      (0 :> 169) @@ (1 :> 1) @@ (8192 :> 119)
                          @@ (16381 :> 192) @@ (16383 :> 153))).value,
     from_rom(RomFile(2, 1, 0,
                      (0 :> 169) @@ (8192 :> 102) @@ (16384 :> 85) @@ (16385 :> 68)
                          @@ (32765 :> 128) @@ (32767 :> 51))).value,
     from_program(MultiplyProgram).value}

\* cartridge-space addresses below, at and above the start of PRG-ROM
CartAddresses ==
    {16416, 24575, 24576, 32767, 32768, 32769, 40960, 49151,
     49152, 49153, 57344, 65532, 65533, 65535}

InitCart ==
    /\ InitMachine(BusDefault)
    /\ nes_ram = BusDefault
    /\ cart \in Cartridges
    /\ nesCall = NoCall /\ nesWrites = 0

\* Cartridge::cpu_read in a build with or without overflow checks
CartRead ==
    /\ \E addr \in CartAddresses, overflow_checks \in BOOLEAN :
           nesCall' = Called("cartridge_cpu_read", addr, 0,
                             cartridge_cpu_read(cart, addr, overflow_checks), cart)
    /\ UNCHANGED <<nes_ram, cart, nesWrites>>
    /\ UNCHANGED machine_vars

\* Cartridge::cpu_write; the call that panics leaves the cartridge as it was
CartWrite ==
    /\ \E addr \in CartAddresses, data \in {90, 165} :
           nesCall' = Called("cartridge_cpu_write", addr, data,
                             cartridge_cpu_write(cart, addr, data), cart)
    /\ UNCHANGED <<nes_ram, cart, nesWrites>>
    /\ UNCHANGED machine_vars

SpecCart == InitCart /\ [][CartRead \/ CartWrite]_vars


(***************************************************************************)
(* iNES files given to Cartridge::from_rom.                                *)
(***************************************************************************)
\* files with 0 to 2 PRG banks, 0 or 1 CHR bank, flag bytes with and without
\* a trainer and a mapper nibble, one with a bad magic number, one with low
\* bits in flag7 and one with a PRG-RAM size, cut to lengths inside the header, around the end of the
\* declared PRG/CHR data and around the end of the trainer
RomFiles ==
    LET cut(header, len) ==
            [len |-> len,
             at |-> [k \in {i - 1 : i \in {j \in DOMAIN header : header[j] # 0 /\ j <= len}}
                        |-> header[k + 1]]]
        lengths(declared) ==
            {0, 3, 4, 7, 8, 9, 15, 16, 16 + declared - 1, 16 + declared,
             16 + declared + 511, 16 + declared + 512}
        headers ==
            { <<78, 69, 83, 26, nb_prg, nb_chr, flag6, flag7>> :
                  nb_prg \in {0, 1, 2}, nb_chr \in {0, 1},
                  flag6 \in {0, 4, 16}, flag7 \in {0, 16} }
                \cup { <<77, 69, 83, 26, 1, 0, 0, 0>>, <<78, 69, 83, 26, 1, 0, 0, 8>>,
                       <<78, 69, 83, 26, 1, 0, 0, 0, 2>> }
    IN UNION { { cut(header, len) :
                     len \in lengths(header[5] * 16384 + header[6] * 8192) } :
               header \in headers }

\* Cartridge::from_rom on one of the files; a cartridge that is returned
\* takes the place of the one in use
LoadRom ==
    /\ \E file \in RomFiles :
           LET loaded == from_rom(file)
           IN /\ nesCall' = Called("from_rom", 0, 0, loaded, file)
              /\ cart' = IF loaded.kind = "Ok" THEN loaded.value ELSE cart
    /\ UNCHANGED <<nes_ram, nesWrites>>
    /\ UNCHANGED machine_vars

SpecRom == InitCart /\ [][LoadRom]_vars
(***************************************************************************)
(* Properties.  Bits and words are read here by plain arithmetic.          *)
(***************************************************************************)
Bit(v, k) == (v \div (2 ^ k)) % 2

Word(mem, addr) == read(mem, addr + 1) * 256 + read(mem, addr)

SameRegisters(s) ==
    /\ a = s.a /\ x = s.x /\ y = s.y /\ sp = s.sp /\ pc = s.pc /\ p = s.p

\* the operation and mode of the instruction whose opcode was fetched last
Executed == INSTRUCTION_OPERATE[opcode + 1]
ExecutedMode == INSTRUCTION_MODE[opcode + 1]

\* the last call was the step that fetched and executed an instruction
Fetched == lastCall = "step" /\ prev.cycles = 0

\* outside the stack page the bus array is as the last call found it
OnlyStackWritten ==
    /\ DOMAIN ram \ (256 .. 511) = DOMAIN prev.ram \ (256 .. 511)
    /\ \A k \in DOMAIN ram \ (256 .. 511) : ram[k] = prev.ram[k]

\* the byte at 0x0100 + ((v + d) mod 256)
StackByte(mem, v, d) == read(mem, 256 + ((v + d + 256) % 256))

\* C1: after every step of an execution that began with reset, bit U (0x20)
\* of P is 1.
C1_UnusedSetAfterStep == lastCall = "step" => Bit(p, 5) = 1

\* a PLP has just pulled a status byte whose bit U is 0
C1_Witness ==
    /\ Fetched /\ Executed = "plp"
    /\ Bit(read(prev.ram, 256 + sp), 5) = 0
    /\ Bit(p, 5) = 1

\* C2: reset from any CPU state leaves PC = the word at 0xFFFC, A = X = Y = 0,
\* SP = 0xFD, P = 0x20, cycles = 8, and memory as it was.
C2_ResetPostState ==
    lastCall = "reset" =>
        /\ pc = Word(prev.ram, 65532)
        /\ a = 0 /\ x = 0 /\ y = 0 /\ sp = 253 /\ p = 32 /\ cycles = 8
        /\ ram = prev.ram

\* a reset of a running CPU: registers, flags and cycles all differ from reset's
C2_Witness ==
    /\ lastCall = "reset"
    /\ prev.a # 0 /\ prev.x # 0 /\ prev.sp # 253 /\ prev.p # 32 /\ prev.pc # pc
    /\ prev.cycles \notin {0, 8}
    /\ pc = 32768

\* C3: a step made while cycles > 0 decrements cycles by exactly 1 and leaves
\* PC, A, X, Y, SP, P, opcode and memory unchanged; cycles stays in 0..255.
C3_WaitingStepFrame ==
    /\ cycles \in 0 .. 255
    /\ (lastCall = "step" /\ prev.cycles > 0) =>
           /\ cycles = prev.cycles - 1
           /\ SameRegisters(prev)
           /\ opcode = prev.opcode
           /\ ram = prev.ram

\* the waiting step that brings cycles down to 0
C3_Witness == lastCall = "step" /\ prev.cycles = 1 /\ cycles = 0 /\ pc # 0

\* C4: with no interrupt in between, the step calls an instruction takes from
\* its opcode fetch until cycles is back at 0 number base_cycles plus a branch
\* penalty in {0,1,2} plus a page-cross penalty in {0,1}; cycles reaches 0
\* at the last of them and not at the first.  ticks + cycles is that number
\* at every tick of the instruction.
IsBranch(name) ==
    name \in {"bcc", "bcs", "beq", "bne", "bmi", "bpl", "bvc", "bvs"}

PenaltyRange(name, mode) ==
    IF IsBranch(name) THEN 0 .. 2
    ELSE IF mode \in {"Abx", "Aby", "Izy"} THEN 0 .. 1
    ELSE {0}

C4_TicksPerInstruction ==
    ticks > 0 =>
        LET total == ticks + cycles
        IN /\ total - INSTRUCTION_CYCLES[opcode + 1]
                  \in PenaltyRange(Executed, ExecutedMode)
           /\ ticks = 1 => cycles > 0

\* a branch taken across a page has used its 2 + 2 ticks
C4_Witness ==
    /\ ticks = 4 /\ cycles = 0 /\ Executed = "beq"
    /\ pc \div 256 # (hist[Len(hist)].pc + 2) \div 256

\* C5: irq while flag I is set changes no register, no cycle count and no
\* memory byte.
C5_MaskedIrqIsNoOp ==
    (lastCall = "irq" /\ Bit(prev.p, 2) = 1) =>
        /\ SameRegisters(prev)
        /\ cycles = prev.cycles
        /\ ram = prev.ram

\* a masked irq arriving in mid-instruction
C5_Witness ==
    /\ lastCall = "irq" /\ Bit(prev.p, 2) = 1 /\ prev.cycles > 0
    /\ events = 0

\* what irq and nmi leave behind: PC high, PC low and P (B = 0, U = 1) at
\* 0x0100 + SP, SP-1, SP-2 (mod 256), SP lowered by 3, I set, PC = the vector
InterruptEntered(vector, charged) ==
    /\ StackByte(ram, prev.sp, 0) = prev.pc \div 256
    /\ StackByte(ram, prev.sp, -1) = prev.pc % 256
    /\ LET pushed == StackByte(ram, prev.sp, -2)
       IN /\ Bit(pushed, 4) = 0 /\ Bit(pushed, 5) = 1
          /\ \A k \in {0, 1, 2, 3, 6, 7} : Bit(pushed, k) = Bit(prev.p, k)
    /\ sp = (prev.sp + 256 - 3) % 256
    /\ Bit(p, 2) = 1
    /\ pc = Word(ram, vector)
    /\ cycles = charged

\* C6: irq while flag I is clear pushes PC high, PC low and the status byte
\* with B = 0 and U = 1, lowers SP by 3 modulo 256, sets I, loads PC from
\* 0xFFFE/0xFFFF and sets cycles to 7.
C6_IrqTaken ==
    (lastCall = "irq" /\ Bit(prev.p, 2) = 0) => InterruptEntered(65534, 7)

\* an irq taken with SP = 1: the three pushes wrap from 0x0100 to 0x01FF
C6_Witness ==
    /\ lastCall = "irq" /\ Bit(prev.p, 2) = 0 /\ prev.sp = 1 /\ sp = 254
    /\ pc = 36864

\* C7: nmi is taken whatever flag I is: same pushes, I set, PC from
\* 0xFFFA/0xFFFB, cycles = 8.
C7_NmiAlwaysTaken == lastCall = "nmi" => InterruptEntered(65530, 8)

\* nmi with P = 0x24 and PC = 0xC000: the stack receives 0xC0, 0x00, 0x24
C7_Witness ==
    /\ lastCall = "nmi" /\ prev.p = 36 /\ prev.pc = 49152
    /\ StackByte(ram, prev.sp, 0) = 192
    /\ StackByte(ram, prev.sp, -1) = 0
    /\ StackByte(ram, prev.sp, -2) = 36
    /\ pc = 36880

\* C8: the multiply program, after reset and repeated steps, reaches the first
\* NOP at 0x8019, and there memory[0x0002] = 0x1E, Y = 0 and Z is set.
AtFirstNop == started /\ pc = 32793

C8_MultiplyResult ==
    /\ <>AtFirstNop
    /\ [](AtFirstNop => (read(ram, 2) = 30 /\ y = 0 /\ Bit(p, 1) = 1))

\* the STA has completed and the next fetch is the first NOP
C8_Witness ==
    /\ AtFirstNop /\ cycles = 0 /\ Executed = "sta"
    /\ read(ram, 2) = 30 /\ read(ram, 0) = 10 /\ read(ram, 1) = 3

\* C9: every push writes at 0x0100 + SP and then lowers SP by 1 modulo 256,
\* every pull raises SP by 1 modulo 256 and then reads 0x0100 + SP; no stack
\* access leaves 0x0100..0x01FF.
C9_StackDiscipline ==
    /\ sp \in 0 .. 255
    /\ (Fetched /\ Executed = "pha") =>
           /\ StackByte(ram, prev.sp, 0) = prev.a
           /\ sp = (prev.sp + 255) % 256 /\ OnlyStackWritten
    /\ (Fetched /\ Executed = "php") =>
           /\ StackByte(ram, prev.sp, 0) % 16 = prev.p % 16
           /\ StackByte(ram, prev.sp, 0) \div 64 = prev.p \div 64
           /\ sp = (prev.sp + 255) % 256 /\ OnlyStackWritten
    /\ (Fetched /\ Executed = "jsr") =>
           /\ StackByte(ram, prev.sp, 0) = ((prev.pc + 2) % 65536) \div 256
           /\ StackByte(ram, prev.sp, -1) = (prev.pc + 2) % 256
           /\ sp = (prev.sp + 254) % 256 /\ OnlyStackWritten
    /\ (Fetched /\ Executed = "brk") =>
           /\ (StackByte(ram, prev.sp, 0) * 256 + StackByte(ram, prev.sp, -1)
                  + 65536 - prev.pc) % 65536 \in 2 .. 3
           /\ StackByte(ram, prev.sp, -2) % 4 = prev.p % 4
           /\ sp = (prev.sp + 253) % 256 /\ OnlyStackWritten
    /\ (lastCall = "nmi" \/ (lastCall = "irq" /\ Bit(prev.p, 2) = 0)) =>
           /\ StackByte(ram, prev.sp, 0) = prev.pc \div 256
           /\ StackByte(ram, prev.sp, -1) = prev.pc % 256
           /\ StackByte(ram, prev.sp, -2) % 4 = prev.p % 4
           /\ sp = (prev.sp + 253) % 256 /\ OnlyStackWritten
    /\ (Fetched /\ Executed = "pla") =>
           /\ sp = (prev.sp + 1) % 256
           /\ a = read(prev.ram, 256 + sp) /\ ram = prev.ram
    /\ (Fetched /\ Executed = "plp") =>
           /\ sp = (prev.sp + 1) % 256
           /\ \A k \in {0, 1, 2, 3, 6, 7} :
                  Bit(read(prev.ram, 256 + sp), k) = 1 => Bit(p, k) = 1
           /\ ram = prev.ram
    /\ (Fetched /\ Executed = "rts") =>
           /\ sp = (prev.sp + 2) % 256
           /\ pc = (read(prev.ram, 256 + sp) * 256
                      + StackByte(prev.ram, prev.sp, 1) + 1) % 65536
           /\ ram = prev.ram
    /\ (Fetched /\ Executed = "rti") =>
           /\ sp = (prev.sp + 3) % 256
           /\ pc = read(prev.ram, 256 + sp) * 256 + StackByte(prev.ram, prev.sp, 2)
           /\ \A k \in {0, 1, 2, 3, 6, 7} :
                  Bit(StackByte(prev.ram, prev.sp, 1), k) = 1 => Bit(p, k) = 1
           /\ ram = prev.ram

\* a pull at SP = 0xFF: SP becomes 0x00 and the byte comes from 0x0100
C9_Witness ==
    /\ Fetched /\ Executed = "pla" /\ prev.sp = 255 /\ sp = 0
    /\ a = read(ram, 256) /\ a # 0

\* C10: PHA immediately followed by PLA leaves A and SP as they were before
\* the PHA and sets Z iff A = 0 and N iff bit 7 of A is 1.
C10_PhaPlaRoundTrip ==
    (Len(hist) = 2 /\ hist[1].operate = "pha" /\ hist[2].operate = "pla") =>
        /\ a = hist[1].a
        /\ sp = hist[1].sp
        /\ Bit(p, 1) = (IF a = 0 THEN 1 ELSE 0)
        /\ Bit(p, 7) = Bit(a, 7)

\* the round trip from SP = 0 (the push wraps to 0xFF, the pull back to 0)
\* with bit 7 of A set
C10_Witness ==
    /\ Len(hist) = 2 /\ hist[1].operate = "pha" /\ hist[2].operate = "pla"
    /\ hist[1].sp = 0 /\ hist[1].a = 128 /\ hist[2].sp = 255
    /\ cycles = 0

\* C11: an indirect JMP takes the target's low byte from ptr and its high
\* byte from ptr & 0xFF00 when ptr's low byte is 0xFF, from ptr + 1 otherwise.
C11_IndirectJumpPageWrap ==
    (Fetched /\ Executed = "jmp" /\ ExecutedMode = "Ind") =>
        LET ptr == Word(prev.ram, prev.pc + 1)
            high == IF ptr % 256 = 255 THEN ptr - 255 ELSE ptr + 1
        IN pc = read(prev.ram, high) * 256 + read(prev.ram, ptr)

\* JMP ($10FF) with 0x80 at 0x10FF, 0x40 at 0x1000 and 0x99 at 0x1100
C11_Witness ==
    /\ Fetched /\ Executed = "jmp" /\ ExecutedMode = "Ind"
    /\ Word(prev.ram, prev.pc + 1) = 4351
    /\ read(prev.ram, 4351) = 128 /\ read(prev.ram, 4096) = 64
    /\ read(prev.ram, 4352) = 153
    /\ pc = 16512

\* C12: ZPX and ZPY give addr_abs = (operand + index) mod 256, inside page
\* zero, and the instruction reads or writes that cell; IZX takes the low
\* pointer byte from (operand + X) mod 256 and the high one from
\* (operand + X + 1) mod 256.
C12_ZeroPageIndexWraps ==
    Fetched =>
        LET operand == read(prev.ram, prev.pc + 1)
            index == IF ExecutedMode = "Zpy" THEN prev.y ELSE prev.x
            cell == (operand + index) % 256
        IN /\ ExecutedMode \in {"Zpx", "Zpy"} =>
                  /\ addr_abs = cell /\ addr_abs \in 0 .. 255
                  /\ Executed = "lda" => a = read(prev.ram, cell)
                  /\ Executed = "ldx" => x = read(prev.ram, cell)
                  /\ Executed \in {"sta", "stx"} =>
                         /\ read(ram, cell)
                                = (IF Executed = "sta" THEN prev.a ELSE prev.x)
                         /\ \A k \in DOMAIN ram \ {cell} :
                                k \in DOMAIN prev.ram /\ ram[k] = prev.ram[k]
           /\ ExecutedMode = "Izx" =>
                  /\ addr_abs = read(prev.ram, (cell + 1) % 256) * 256
                                    + read(prev.ram, cell)
                  /\ Executed = "lda" => a = read(prev.ram, addr_abs)

\* LDA $FF,X with X = 1 reads the byte at 0x0000, not the one at 0x0100
C12_Witness ==
    /\ Fetched /\ Executed = "lda" /\ ExecutedMode = "Zpx"
    /\ read(prev.ram, prev.pc + 1) = 255 /\ prev.x = 1
    /\ addr_abs = 0
    /\ a = 17 /\ read(ram, 256) = 102

\* C13: a branch not taken uses 2 ticks and leaves PC past its operand; a
\* branch taken goes to PC + the sign-extended offset mod 65536 and uses 3
\* ticks when that target is in the page of the PC past the operand, 4 when
\* it is not; BEQ is taken iff Z = 1.
C13_BranchTiming ==
    (Len(hist) > 0 /\ ticks > 0 /\ IsBranch(Executed)) =>
        LET start == hist[Len(hist)]
            after == (start.pc + 2) % 65536
            off == read(ram, (start.pc + 1) % 65536)
            target == (after + (IF off >= 128 THEN off - 256 ELSE off) + 65536) % 65536
            total == ticks + cycles
            not_taken == pc = after /\ total = 2
            taken == /\ pc = target
                     /\ total = IF target \div 256 = after \div 256 THEN 3 ELSE 4
        IN /\ not_taken \/ taken
           /\ Executed = "beq" => (taken <=> Bit(start.p, 1) = 1)
           /\ Executed = "beq" => (not_taken <=> Bit(start.p, 1) = 0)

\* BEQ +127 at 0xFFF0 with Z set: taken, around the end of the address
\* space, in 4 ticks
C13_Witness ==
    /\ Len(hist) = 2 /\ hist[2].operate = "beq" /\ hist[2].pc = 65520
    /\ Bit(hist[2].p, 1) = 1
    /\ pc = 113 /\ ticks = 4 /\ cycles = 0

\* the step calls step_to_next_instruction makes from s
RECURSIVE CallsWhileBusy(_)
CallsWhileBusy(s) == IF s.cycles # 0 THEN 1 + CallsWhileBusy(step(s)) ELSE 0

StepCalls(s) == 1 + CallsWhileBusy(step(s))

\* C14: step_to_next_instruction returns, after at most 256 step calls, with
\* cycles = 0; called in mid-instruction it fetches nothing (registers,
\* opcode and memory stay), called at a boundary it leaves what the one
\* fetching step left, with cycles run down to 0.
C14_StepToNextInstruction ==
    lastCall = "step_to_next_instruction" =>
        /\ cycles = 0
        /\ StepCalls(prev) \in 1 .. 256
        /\ prev.cycles > 0 =>
               /\ SameRegisters(prev) /\ opcode = prev.opcode /\ ram = prev.ram
               /\ StepCalls(prev) = prev.cycles
        /\ prev.cycles = 0 =>
               /\ Machine = [step(prev) EXCEPT !.cycles = 0]
               /\ StepCalls(prev) = 1 + step(prev).cycles

\* called at a boundary: one instruction fetched and run to its last tick
C14_Witness ==
    /\ lastCall = "step_to_next_instruction"
    /\ prev.cycles = 0 /\ cycles = 0 /\ StepCalls(prev) > 2
    /\ Len(hist) = 1 /\ pc # prev.pc

\* the sampled addresses of a routed range
InRange(low, high) == {b \in NesAddresses : b >= low /\ b <= high}

\* C15: a cpu_write(a, d) with a in 0x0000..0x1FFF is read back as d by
\* cpu_read(b) for every b in that range with b & 0x07FF = a & 0x07FF, and
\* changes no byte at any other masked address.
C15_RamMirrored ==
    (nesCall.name = "cpu_write" /\ nesCall.addr < 8192) =>
        /\ \A b \in InRange(0, 8191) :
               IF b % 2048 = nesCall.addr % 2048
               THEN nes_cpu_read(nes_ram, b) = nesCall.data
               ELSE nes_cpu_read(nes_ram, b) = nes_cpu_read(nesCall.before, b)
        /\ \A k \in DOMAIN nes_ram \ {nesCall.addr % 2048} :
               k \in DOMAIN nesCall.before /\ nes_ram[k] = nesCall.before[k]

\* 0xA5 written at 0x1FFF over the 0x5A written at 0x07FF
C15_Witness ==
    /\ nesCall.name = "cpu_write" /\ nesCall.addr = 8191 /\ nesCall.data = 165
    /\ read(nesCall.before, 2047) = 90
    /\ nes_cpu_read(nes_ram, 2047) = 165

\* C16 (as claimed): a cpu_write(a, d) with a in 0x2000..0x3FFF reaches
\* register 0x2000 + (a & 7), and cpu_read(b) returns d for every b in that
\* range with b & 7 = a & 7.
C16_PpuWindowWritten ==
    (nesCall.name = "cpu_write" /\ nesCall.addr \in 8192 .. 16383) =>
        /\ read(nes_ram, 8192 + (nesCall.addr % 8)) = nesCall.data
        /\ \A b \in InRange(8192, 16383) :
               b % 8 = nesCall.addr % 8 => nes_cpu_read(nes_ram, b) = nesCall.data

\* C17 (as claimed): cpu_read passes every byte of 0x4000..0x4017 through,
\* 0x4017 included; in 0x4018..0x401F it returns 0 and cpu_write changes
\* nothing.
C17_IoRangePassThrough ==
    /\ \A b \in InRange(16384, 16407) : nes_cpu_read(nes_ram, b) = read(nes_ram, b)
    /\ \A b \in InRange(16408, 16415) : nes_cpu_read(nes_ram, b) = 0
    /\ (nesCall.name = "cpu_write" /\ nesCall.addr \in 16408 .. 16415) =>
           nes_ram = nesCall.before

PrgByte(c, addr) ==
    LET offset == addr - 32768
        index == IF c.nb_prg_banks = 1 THEN offset % 16384 ELSE offset
    IN IF index < c.prg_rom.len /\ index \in DOMAIN c.prg_rom.at
       THEN c.prg_rom.at[index] ELSE 0

\* C19 (as claimed): Cartridge::cpu_read returns, for every address in
\* 0x4020..0xFFFF: the PRG byte at addr - 0x8000 (masked with 0x3FFF when
\* there is one bank) from 0x8000 on, and 0 below, where no ROM is mapped.
C19_NromReadTotal ==
    nesCall.name = "cartridge_cpu_read" =>
        /\ nesCall.result.kind = "Ok"
        /\ nesCall.result.value
               = IF nesCall.addr >= 32768 THEN PrgByte(cart, nesCall.addr) ELSE 0

\* C20 (as claimed): Cartridge::cpu_write on an NROM cartridge returns and
\* leaves the cartridge unchanged.
C20_NromWriteIgnored ==
    nesCall.name = "cartridge_cpu_write" =>
        /\ nesCall.result.kind = "Ok"
        /\ cart = nesCall.before


\* the bytes of the header of the file given to from_rom, 0 where the file ends
HeaderByte(k) == vec_at(nesCall.before, k)

\* C21 (as claimed): from_rom returns a load error for every file shorter
\* than 16 + trainer + prg_size + chr_size, with trainer = 512 when bit 2 of
\* flag6 is set, prg_size = 16384 * byte 4 and chr_size = 8192 * byte 5.
C21_ShortFileRejected ==
    (/\ nesCall.name = "from_rom"
     /\ nesCall.before.len < 16 + (IF Bit(HeaderByte(6), 2) = 1 THEN 512 ELSE 0)
                                + 16384 * HeaderByte(4) + 8192 * HeaderByte(5))
        => nesCall.result.kind = "Err"

\* C22: from_rom returns a load error for every header whose mapper ID
\* (flag7 & 0xF0) | (flag6 >> 4) is not 0, and every cartridge it returns,
\* and every cartridge in use, has the NROM mapper of ID 0.
C22_UnsupportedMapperRejected ==
    /\ cart.mapper = "Nrom"
    /\ nesCall.name = "from_rom" =>
           LET mapper_id == (HeaderByte(7) \div 16) * 16 + HeaderByte(6) \div 16
           IN /\ (nesCall.before.len >= 8 /\ mapper_id # 0) =>
                     nesCall.result.kind = "Err"
              /\ (nesCall.before.len >= 8 /\ mapper_id # 0 /\ HeaderByte(0) = 78) =>
                     nesCall.result = Failed("Unsupported mapper")
              /\ nesCall.result.kind = "Ok" =>
                     mapper_id = 0 /\ nesCall.result.value.mapper = "Nrom"

\* a complete one-bank file whose flag7 names mapper 16 has been refused
C22_Witness ==
    /\ nesCall.name = "from_rom"
    /\ nesCall.before.len = 16 + 16384
    /\ HeaderByte(4) = 1 /\ HeaderByte(6) = 0 /\ HeaderByte(7) = 16
    /\ nesCall.result = Failed("Unsupported mapper")

\* bits 0-3, 6 and 7 of v equal those of w
SameFlagBits(v, w) == \A k \in {0, 1, 2, 3, 6, 7} : Bit(v, k) = Bit(w, k)

\* C23 (as claimed): after RTI bits 0-3 and 6-7 of P are those of the status
\* byte pulled, bits 4 and 5 are as before, PC is the word pulled next (low
\* byte first) and SP has gone up by 3 modulo 256.
C23_RtiRestoresStatus ==
    (Fetched /\ Executed = "rti") =>
        /\ SameFlagBits(p, StackByte(prev.ram, prev.sp, 1))
        /\ Bit(p, 4) = Bit(prev.p, 4) /\ Bit(p, 5) = Bit(prev.p, 5)
        /\ pc = StackByte(prev.ram, prev.sp, 3) * 256 + StackByte(prev.ram, prev.sp, 2)
        /\ sp = (prev.sp + 3) % 256

\* C24 (as claimed): after PLP bits 0-3 and 6-7 of P are those of the byte
\* pulled, whatever P was, and bits 4 and 5 are as before.
C24_PlpRestoresStatus ==
    (Fetched /\ Executed = "plp") =>
        /\ SameFlagBits(p, StackByte(prev.ram, prev.sp, 1))
        /\ Bit(p, 4) = Bit(prev.p, 4) /\ Bit(p, 5) = Bit(prev.p, 5)
        /\ sp = (prev.sp + 1) % 256

\* C25 (as claimed): BRK pushes the high and low byte of the address two
\* past its opcode, then P as it was when BRK began with B and U set, then
\* sets I and loads PC from 0xFFFE/0xFFFF.
C25_BrkPushesStatus ==
    (Fetched /\ Executed = "brk") =>
        LET return == (prev.pc + 2) % 65536
            pushed == StackByte(ram, prev.sp, -2)
        IN /\ StackByte(ram, prev.sp, 0) = return \div 256
           /\ StackByte(ram, prev.sp, -1) = return % 256
           /\ \A k \in 0 .. 7 :
                  Bit(pushed, k) = IF k \in {4, 5} THEN 1 ELSE Bit(prev.p, k)
           /\ Bit(p, 2) = 1
           /\ pc = Word(ram, 65534)
           /\ sp = (prev.sp + 253) % 256

\* C26: JSR pushes the high then the low byte of the address of its last
\* operand byte and jumps to its operand; RTS pulls low then high and goes
\* to that address + 1 modulo 65536; an RTS that follows a JSR directly
\* resumes after the JSR with SP as it was before it.
C26_JsrRtsRoundTrip ==
    /\ (Fetched /\ Executed = "jsr") =>
           LET last == (prev.pc + 2) % 65536
           IN /\ StackByte(ram, prev.sp, 0) = last \div 256
              /\ StackByte(ram, prev.sp, -1) = last % 256
              /\ sp = (prev.sp + 254) % 256
              /\ pc = read(prev.ram, last) * 256 + read(prev.ram, (prev.pc + 1) % 65536)
    /\ (Fetched /\ Executed = "rts") =>
           /\ pc = (StackByte(prev.ram, prev.sp, 2) * 256
                       + StackByte(prev.ram, prev.sp, 1) + 1) % 65536
           /\ sp = (prev.sp + 2) % 256
           /\ ram = prev.ram
           /\ (Len(hist) = 2 /\ hist[1].operate = "jsr") =>
                  /\ pc = (hist[1].pc + 3) % 65536
                  /\ sp = hist[1].sp

\* a JSR at 0xFFFD entered with SP = 0x00 has been returned from: its pushes
\* went to 0x0100 and 0x01FF, and the run resumes at 0x0000
C26_Witness ==
    /\ Fetched /\ Executed = "rts"
    /\ Len(hist) = 2 /\ hist[1].operate = "jsr"
    /\ hist[1].pc = 65533 /\ hist[1].sp = 0
    /\ read(ram, 256) = 255 /\ read(ram, 511) = 255
    /\ pc = 0 /\ sp = 0

\* the operations the specification gives the page-crossing penalty to
ReadCategory == {"adc", "and", "cmp", "eor", "lda", "ldx", "ldy", "ora", "sbc"}

\* the address the indexed mode of the instruction just fetched started from
UnindexedBase ==
    (addr_abs + 65536 - (IF ExecutedMode = "Abx" THEN prev.x ELSE prev.y)) % 65536

\* C27 (as claimed): a handler returns 1 exactly when its operation is of
\* the read category; such an instruction in mode ABX, ABY or IZY whose
\* address is in another page than its un-indexed base takes its base
\* cycles + 1, and no operation outside the category (branches apart) ever
\* takes more than its base cycles.
C27_ReadPenalty ==
    Fetched =>
        LET total == 1 + cycles
            base == INSTRUCTION_CYCLES[opcode + 1]
        IN /\ (call_operate(Executed, prev).ret = 1) <=> (Executed \in ReadCategory)
           /\ (/\ Executed \in ReadCategory
               /\ ExecutedMode \in {"Abx", "Aby", "Izy"}
               /\ UnindexedBase \div 256 # addr_abs \div 256) => total = base + 1
           /\ (Executed \notin ReadCategory /\ ~IsBranch(Executed)) => total = base

\* the operand the instruction just fetched worked on
Operand == read(prev.ram, addr_abs)

\* bit 7 of a byte, as a sign
Negative(v) == v % 256 >= 128

\* C28: ADC computes r = A + M + C and leaves A = r mod 256, C iff r > 0xFF,
\* Z iff r mod 256 = 0, N iff bit 7 of r, V iff A and M have the same sign
\* and r has the other; nothing else changes.
C28_AdcResult ==
    (Fetched /\ Executed = "adc") =>
        LET r == prev.a + Operand + Bit(prev.p, 0)
        IN /\ a = r % 256
           /\ Bit(p, 0) = (IF r > 255 THEN 1 ELSE 0)
           /\ Bit(p, 1) = (IF r % 256 = 0 THEN 1 ELSE 0)
           /\ Bit(p, 7) = (IF Negative(r) THEN 1 ELSE 0)
           /\ Bit(p, 6) = (IF /\ Negative(prev.a) = Negative(Operand)
                              /\ Negative(r) # Negative(prev.a) THEN 1 ELSE 0)
           /\ \A k \in {2, 3, 4, 5} : Bit(p, k) = Bit(prev.p, k)
           /\ x = prev.x /\ y = prev.y /\ sp = prev.sp /\ ram = prev.ram

\* 0x50 + 0x50 with carry clear and V clear before: A = 0xA0, V and N set,
\* C clear
C28_Witness ==
    /\ Fetched /\ Executed = "adc"
    /\ prev.a = 80 /\ Operand = 80 /\ Bit(prev.p, 0) = 0 /\ Bit(prev.p, 6) = 0
    /\ a = 160 /\ Bit(p, 6) = 1 /\ Bit(p, 7) = 1 /\ Bit(p, 0) = 0

\* C29: SBC with operand M leaves the registers, flags, cycle count and
\* memory that ADC with operand M XOR 0xFF leaves from the same state, and,
\* flag D apart, what it leaves from that state with D clear.
C29_SbcIsAdcOfComplement ==
    (Fetched /\ Executed = "sbc" /\ ExecutedMode = "Imm") =>
        LET twin == [prev EXCEPT
                        !.ram = write(write(prev.ram, prev.pc, 105),
                                      (prev.pc + 1) % 65536, 255 - Operand)]
            added == step(twin)
        IN /\ a = added.a /\ p = added.p
           /\ x = added.x /\ y = added.y /\ sp = added.sp /\ pc = added.pc
           /\ cycles = added.cycles
           /\ ram = prev.ram
           /\ Bit(p, 0) = (IF prev.a + (255 - Operand) + Bit(prev.p, 0) > 255 THEN 1 ELSE 0)
           /\ LET binary == step([prev EXCEPT !.p = prev.p - 8 * Bit(prev.p, 3)])
              IN a = binary.a /\ p - 8 * Bit(p, 3) = binary.p

\* 0x50 - 0xD0 with carry and decimal set: A = 0x80, V and N set, C clear
C29_Witness ==
    /\ Fetched /\ Executed = "sbc" /\ ExecutedMode = "Imm"
    /\ prev.a = 80 /\ Operand = 208 /\ Bit(prev.p, 0) = 1 /\ Bit(prev.p, 3) = 1
    /\ a = 128 /\ Bit(p, 6) = 1 /\ Bit(p, 7) = 1 /\ Bit(p, 0) = 0

\* the register the compare instruction just fetched compared
Compared ==
    IF Executed = "cmp" THEN prev.a ELSE IF Executed = "cpx" THEN prev.x ELSE prev.y

\* C30: CMP/CPX/CPY set C iff reg >= M, Z iff reg = M and N to bit 7 of
\* (reg - M) mod 256, and leave V, the other flags, every register and
\* memory as they were.
C30_CompareFlags ==
    (Fetched /\ Executed \in {"cmp", "cpx", "cpy"}) =>
        /\ Bit(p, 0) = (IF Compared >= Operand THEN 1 ELSE 0)
        /\ Bit(p, 1) = (IF Compared = Operand THEN 1 ELSE 0)
        /\ Bit(p, 7) = (IF Negative(Compared + 256 - Operand) THEN 1 ELSE 0)
        /\ \A k \in {2, 3, 4, 5, 6} : Bit(p, k) = Bit(prev.p, k)
        /\ a = prev.a /\ x = prev.x /\ y = prev.y /\ sp = prev.sp /\ ram = prev.ram

\* CPX of 0x50 with 0xD0 while V is set: borrow, so C clear, N set (0x80),
\* V still set
C30_Witness ==
    /\ Fetched /\ Executed = "cpx"
    /\ prev.x = 80 /\ Operand = 208 /\ Bit(prev.p, 6) = 1
    /\ Bit(p, 0) = 0 /\ Bit(p, 1) = 0 /\ Bit(p, 7) = 1 /\ Bit(p, 6) = 1

\* C31: BIT sets Z iff A AND M is zero, V to bit 6 of M and N to bit 7 of M
\* whatever A is, and leaves A, C, the other flags, the other registers and
\* memory as they were.
C31_BitTest ==
    (Fetched /\ Executed = "bit") =>
        /\ Bit(p, 1) = (IF BitAnd(prev.a, Operand) = 0 THEN 1 ELSE 0)
        /\ Bit(p, 6) = Bit(Operand, 6)
        /\ Bit(p, 7) = Bit(Operand, 7)
        /\ \A k \in {0, 2, 3, 4, 5} : Bit(p, k) = Bit(prev.p, k)
        /\ a = prev.a /\ x = prev.x /\ y = prev.y /\ sp = prev.sp /\ ram = prev.ram

\* C32: an irq taken, or an nmi delivered, between two instructions and
\* answered by an RTI at once (the three pushed bytes and SP untouched in
\* between) ends with PC, SP and flags N, V, D, I, Z, C as they were before
\* the interrupt; after an irq, I is clear again and the next irq is taken.
C32_InterruptRoundTrip ==
    (/\ lastCall \in {"irq", "nmi"} /\ prev.cycles = 0
     /\ lastCall = "irq" => Bit(prev.p, 2) = 0
     /\ get_instruction(read(ram, pc)).operate = "rti") =>
        LET returned == step_through_two(Machine)
        IN /\ returned.pc = prev.pc /\ returned.sp = prev.sp
           /\ SameFlagBits(returned.p, prev.p)
           /\ lastCall = "irq" =>
                  Bit(returned.p, 2) = 0 /\ irq(returned) # returned

\* C33: from reset on, bit B (0x10) of P is 0 between calls: PHP and BRK
\* push a status byte with B set and leave B clear in P, PLP and RTI do not
\* load it, and the status byte pushed by a taken irq and by nmi has B = 0.
C33_BreakNeverLive ==
    started =>
        /\ Bit(p, 4) = 0
        /\ (lastCall = "nmi" \/ (lastCall = "irq" /\ Bit(prev.p, 2) = 0)) =>
               Bit(StackByte(ram, prev.sp, -2), 4) = 0
        /\ (Fetched /\ Executed = "php") => Bit(StackByte(ram, prev.sp, 0), 4) = 1
        /\ (Fetched /\ Executed = "brk") => Bit(StackByte(ram, prev.sp, -2), 4) = 1

\* RTI has pulled the status byte a BRK pushed, B set in it, and P has B
\* clear
C33_Witness ==
    /\ Fetched /\ Executed = "rti"
    /\ Len(hist) = 2 /\ hist[1].operate = "brk"
    /\ Bit(StackByte(prev.ram, prev.sp, 1), 4) = 1
    /\ Bit(p, 4) = 0
====
